---- MODULE Spec2Model ----
(***************************************************************************)
(* Model of the yarig register-interface generator (TheClams/yarig).       *)
(*                                                                         *)
(* The generator is a single-threaded compiler.  Each subsystem of the     *)
(* elaborator and of the expression engine is modelled as a state machine  *)
(* over its own variables, with its own specification:                     *)
(*                                                                         *)
(*   SpecCursor  the InstAddr address cursor          (comp_inst.rs)       *)
(*   SpecMux     RifmuxInst::build                    (comp_inst.rs)       *)
(*   SpecPage    RifPageInst::new / reg_auto_inst,                         *)
(*               RifRegInst::new, RegImpl building    (comp_inst.rs,       *)
(*                                                     reg_impl.rs)        *)
(*   SpecExpr    parse_expr and ExprTokens::eval      (parser_expr.rs)     *)
(*   SpecParams  ParamValues::compile in RifInst::new (parser_expr.rs)     *)
(*   SpecItemParams  the parameters of a Rifmux item  (comp_inst.rs)       *)
(*   SpecLoader  the loading of the included files    (parser_file.rs)     *)
(*   SpecMain    the command line and the outputs     (main.rs)            *)
(*   SpecEnum    the enumerations of a package        (comp_inst.rs)       *)
(*   SpecManual  RifPageInst::new, manual instances   (comp_inst.rs)       *)
(*   SpecRegImpl RegImplDict::build on merged         (reg_impl.rs)        *)
(*               definitions                                               *)
(*   SpecParse   the line parser of parse_file        (parser_file.rs)     *)
(*   SpecField   the kinds of a field                 (field.rs)           *)
(*   SpecPush    PartialFieldDict::push               (comp_inst.rs)       *)
(*   SpecPort    the port of a register group         (reg_impl.rs)        *)
(*   SpecFields  the fields of a register instance    (comp_inst.rs)       *)
(*   SpecHw      RifInst::new: pages, RegImplDict,    (comp_inst.rs,       *)
(*               HwRegs::build                         reg_impl.rs)        *)
(*                                                                         *)
(* A specification leaves the variables of the other subsystems at their   *)
(* idle value.                                                             *)
(*                                                                         *)
(* Integers.  The code computes addresses in u64 and the cursor base in    *)
(* i64, with the wrapping arithmetic of a release build.  A u64 value is   *)
(* represented here by its two's-complement representative (the integer    *)
(* of [-2^63, 2^63) congruent to it modulo 2^64), so that `x as u64` and   *)
(* `x as i64` are the identity on representatives and + and - agree with   *)
(* the wrapping operations as long as no representative leaves that        *)
(* interval, which the bounds of the model guarantee.  A negative          *)
(* representative -k stands for the address 2^64 - k.                      *)
(***************************************************************************)
EXTENDS Integers, Sequences, FiniteSets, TLC

VARIABLES
    \* ---- InstAddr cursor
    cur,        \* the InstAddr object: [base, incr]
    curRet,     \* value returned by the last cursor operation
    curOp,      \* the last operation: [op, v, base0] (base0: base before it)
    curPrev,    \* the operation before the last one: [op, v, ret]
    \* ---- RifmuxInst::build
    muxDef,     \* the Rifmux being built: [items, groups]
    muxIdx,     \* number of items of muxDef.items already processed
    muxAddr,    \* inst_addr, the cursor of the build
    muxComps,   \* rm.components
    muxGroups,  \* rm.groups
    muxPc,      \* "idle", "build" (in the loop over the items), "done"
    \* ---- expression engine
    exprIn,     \* how the text was built: [form, a, op1, b, op2, c, d, tail]
    exprSrc,    \* the text given to parse_expr, a sequence of characters
    exprVars,   \* the ParamValues the expression is evaluated over
    exprRpn,    \* result of parse_expr: [ok, tokens]
    exprRes,    \* result of ExprTokens::eval: [st, v]
    exprPc,     \* "idle", "input", "parsed", "failed", "done"
    \* ---- parameter compilation
    parTop,     \* top_params, the binding of the caller
    parDecl,    \* rif.parameters.items(): a sequence of [k, e] (name, RPN)
    parVals,    \* params, the binding of the RIF
    parIdx,     \* number of declared parameters already visited
    parEvald,   \* the indices of the declared parameters that were evaluated
    parPc,      \* "idle", "new", "compile", "done", "err"
    \* ---- page elaboration
    pgIn,       \* the input: [data_width, page, params]
    pgIdx,      \* number of entries of page.registers already processed
    pgSt,       \* the page being built: [regs, from, partials, addr, ok]
    pgImpl,     \* result of RegImplDict::build: [ok, v, err]
    pgPc,       \* "idle", "page", "impl", "done", "err", "panic"
    \* ---- parameters of a Rifmux item
    ipIn,       \* the input: [top, mux, name, parameters]
    ipOrder,    \* i.parameters.iter(): the entries in the order of the HashMap
    ipVals,     \* i_params, the binding handed to the item
    ipIdx,      \* number of entries of ipOrder already visited
    ipErr,      \* the error returned, <<>> when there is none
    ipPc,       \* "idle", "inherit", "compile", "done", "err"
    \* ---- loader
    ldDir,      \* the directory: file stem -> the references parse_file returns
    ldRefs,     \* refs, the pending references
    ldSrc,      \* the stems of the files parsed into src
    ldRound,    \* the number of iterations of while !ref_done, modulo 2
    ldPc,       \* "idle", "start", "resolve", "done"
    \* ---- command line
    mnFiles,    \* filelist: for each input file, what from_file and compile return
    mnIdx,      \* number of input files already processed
    mnFail,     \* fail_cnt
    mnOut,      \* the lines printed for the files processed
    mnExit,     \* the exit status of the process, -1 while it runs
    mnPc,       \* "idle", "loop", "exited"
    \* ---- enum import of RifInst::new
    enRif,      \* the RIF: [data_width, enum_defs, pages]; a page is its list of includes
    enIdx,      \* number of pages already processed
    enDefs,     \* enum_defs: a sequence of [name, from, orig]
    enPc,       \* "idle", "pages", "done", "err"
    \* ---- page elaboration, manual instances
    mpIn,       \* the input: [data_width, page, params]
    mpIdx,      \* number of entries of page.instances already processed
    mpAddr,     \* inst_addr, the cursor of the page
    mpSt,       \* the page being built: [regs, from, lut, partials, ok]
    mpPc,       \* "idle", "insts", "done", "err"
    \* ---- the line parser of RifGenSrc::parse_file
    psStack,    \* context_stack: a sequence of [c, col]
    psTop,      \* self.top: [k, name], k is "None", "Rif" or "Rifmux"
    psRifs,     \* self.rifs: a set of [name, decl, addr_width, pages, desc]
    psMux,      \* self.rifmux: a set of [name, decl, addr_width, items, groups, desc]
    psLastObj,  \* self.last_obj
    psLastGroup,\* self.last_group
    psFile,     \* number of the file being parsed, from 1
    psLine,     \* line_num
    psLast,     \* the last line parsed: [ilvl, k, c, opened], c its context
    psPrev,     \* psLast before the last line
    psPc,       \* "idle", "lines", "eof", "done", "err"
    \* ---- the kinds of a field
    fkHw,       \* Field.hw_kind: sequence of [k, trig]
    fkSw,       \* Field.sw_kind
    fkAcc,      \* Field.hw_acc
    fkLast,     \* the last attribute line: [a, trig, clr, hw0]
    fkN,        \* number of attribute lines parsed
    fkPc,       \* "idle", "field", "done", "err"
    \* ---- PartialFieldDict
    pdDict,     \* the dictionary: sequence of [k, v]
    pdArgs,     \* the arguments of the last push: [group_type, group_name, info]
    pdRet,      \* the index the last push returned
    pdN,        \* number of pushes
    \* ---- the port of a register group
    ptPort,     \* RegImpl.port
    ptPrev,     \* the port before the last updt
    ptVal,      \* the argument of the last updt
    ptSet,      \* the contributions so far: from_reg and from_field values
    ptN,        \* number of contributions, 0: no RegImpl yet
    \* ---- the fields of a register instance
    fiDef,      \* def.fields and r.array
    fiIdx,      \* number of fields of def.fields expanded
    fiNext,     \* next_lsb
    fiInsts,    \* r.fields
    \* ---- the hardware registers of a RIF instance
    hwIn,       \* the RIF: [data_width, pages, params]
    hwIdx,      \* number of pages of rif.pages already built
    hwSt,       \* the pages built: [regs, partials, ok]
    hwImpl,     \* reg_impl_defs: [ok, v, err]
    hwRegs,     \* hw_regs: sequence of [key, group, intr_derived]
    hwPc        \* "idle", "pages", "dict", "hw", "done", "err", "undefined", "panic"

curVars == <<cur, curRet, curOp, curPrev>>

muxVars == <<muxDef, muxIdx, muxAddr, muxComps, muxGroups, muxPc>>

exprVarsAll == <<exprIn, exprSrc, exprVars, exprRpn, exprRes, exprPc>>

parVars == <<parTop, parDecl, parVals, parIdx, parEvald, parPc>>

pgVars == <<pgIn, pgIdx, pgSt, pgImpl, pgPc>>

ipVars == <<ipIn, ipOrder, ipVals, ipIdx, ipErr, ipPc>>

ldVars == <<ldDir, ldRefs, ldSrc, ldRound, ldPc>>

mnVars == <<mnFiles, mnIdx, mnFail, mnOut, mnExit, mnPc>>

enVars == <<enRif, enIdx, enDefs, enPc>>

mpVars == <<mpIn, mpIdx, mpAddr, mpSt, mpPc>>

fkVars == <<fkHw, fkSw, fkAcc, fkLast, fkN, fkPc>>

pdVars == <<pdDict, pdArgs, pdRet, pdN>>

ptVars == <<ptPort, ptPrev, ptVal, ptSet, ptN>>

fiVars == <<fiDef, fiIdx, fiNext, fiInsts>>

hwVars == <<hwIn, hwIdx, hwSt, hwImpl, hwRegs, hwPc>>

psVars == <<psStack, psTop, psRifs, psMux, psLastObj, psLastGroup, psFile, psLine, psLast,
            psPrev, psPc>>

vars == <<cur, curRet, curOp, curPrev,
          muxDef, muxIdx, muxAddr, muxComps, muxGroups, muxPc,
          exprIn, exprSrc, exprVars, exprRpn, exprRes, exprPc,
          parTop, parDecl, parVals, parIdx, parEvald, parPc,
          pgIn, pgIdx, pgSt, pgImpl, pgPc,
          ipIn, ipOrder, ipVals, ipIdx, ipErr, ipPc,
          ldDir, ldRefs, ldSrc, ldRound, ldPc,
          mnFiles, mnIdx, mnFail, mnOut, mnExit, mnPc,
          enRif, enIdx, enDefs, enPc,
          mpIn, mpIdx, mpAddr, mpSt, mpPc,
          psStack, psTop, psRifs, psMux, psLastObj, psLastGroup, psFile, psLine, psLast,
          psPrev, psPc,
          fkHw, fkSw, fkAcc, fkLast, fkN, fkPc,
          pdDict, pdArgs, pdRet, pdN,
          ptPort, ptPrev, ptVal, ptSet, ptN,
          fiDef, fiIdx, fiNext, fiInsts,
          hwIn, hwIdx, hwSt, hwImpl, hwRegs, hwPc>>

----------------------------------------------------------------------------
(* Generic helpers *)

Max(a, b) == IF a >= b THEN a ELSE b

Min(a, b) == IF a <= b THEN a ELSE b

Range(s) == {s[i] : i \in DOMAIN s}

----------------------------------------------------------------------------
(* InstAddr: the address cursor (comp_inst.rs) *)

\* Bound on the magnitude of the cursor base explored by the model
MaxAddr == 12

\* Largest offset handed to updt by the cursor specification
MaxOffset == 3

\* Address increments: data_width >> 3 of a RIF, 0 for a Rifmux cursor
IncrValues == {0, 1, 2, 4}

AddressKind == {"Absolute", "Relative", "RelativeSet"}

\* InstAddr::new(incr)
InstAddr_new(incr) == [base |-> 0 - incr, incr |-> incr]

\* Mutant of InstAddr_updt: Relative also moves the base, and an offset
\* smaller than incr is not raised to incr
InstAddr_updt_mut(self, offset, kind) ==
    CASE kind = "Absolute"    -> [self |-> [self EXCEPT !.base = offset], ret |-> offset]
      [] kind = "Relative"    -> [self |-> [self EXCEPT !.base = self.base + offset],
                                  ret  |-> self.base + offset]
      [] kind = "RelativeSet" -> [self |-> [self EXCEPT !.base = self.base + offset],
                                  ret  |-> self.base + offset]

\* InstAddr::updt(&mut self, offset, kind) -> u64: the cursor after the call
\* and the value returned
InstAddr_updt(self, offset, kind) ==
    CASE kind = "Absolute"    -> [self |-> [self EXCEPT !.base = offset], ret |-> offset]
      [] kind = "Relative"    -> [self |-> self,
                                  ret  |-> Max(offset, self.incr) + self.base]
      [] kind = "RelativeSet" -> LET b == self.base + Max(offset, self.incr)
                                 IN  [self |-> [self EXCEPT !.base = b], ret |-> b]

\* Mutant of InstAddr_incr: returns the base before the increment
InstAddr_incr_mut(self) ==
    [self |-> [self EXCEPT !.base = self.base + self.incr], ret |-> self.base]

\* InstAddr::incr(&mut self) -> u64
InstAddr_incr(self) ==
    LET b == self.base + self.incr
    IN  [self |-> [self EXCEPT !.base = b], ret |-> b]

\* InstAddr::decr(&mut self) -> u64
InstAddr_decr(self) ==
    LET b == self.base - self.incr
    IN  [self |-> [self EXCEPT !.base = b], ret |-> b]

NoOp == [op |-> "new", v |-> 0, base0 |-> 0]

NoPrev == [op |-> "new", v |-> 0, ret |-> 0]

CurIdle ==
    /\ cur = InstAddr_new(0)
    /\ curRet = 0
    /\ curOp = NoOp
    /\ curPrev = NoPrev

MuxIdle ==
    /\ muxDef = [items |-> <<>>, groups |-> <<>>]
    /\ muxIdx = 0
    /\ muxAddr = InstAddr_new(0)
    /\ muxComps = <<>>
    /\ muxGroups = <<>>
    /\ muxPc = "idle"

NoInput == [form |-> "none", a |-> <<>>, op1 |-> "", b |-> <<>>, op2 |-> "", c |-> <<>>,
            d |-> <<>>, tail |-> ""]

ExprIdle ==
    /\ exprIn = NoInput
    /\ exprSrc = <<>>
    /\ exprVars = <<>>
    /\ exprRpn = [ok |-> FALSE, tokens |-> <<>>]
    /\ exprRes = [st |-> "none", v |-> 0]
    /\ exprPc = "idle"

ParIdle ==
    /\ parTop = <<>>
    /\ parDecl = <<>>
    /\ parVals = <<>>
    /\ parIdx = 0
    /\ parEvald = <<>>
    /\ parPc = "idle"

PgIdle ==
    /\ pgIn = [data_width |-> 0,
               page |-> [name |-> "", registers |-> <<>>, instances |-> <<>>],
               params |-> <<>>]
    /\ pgIdx = 0
    /\ pgSt = [regs |-> <<>>, from |-> <<>>, partials |-> <<>>, addr |-> 0, ok |-> TRUE]
    /\ pgImpl = [ok |-> TRUE, v |-> <<>>, err |-> ""]
    /\ pgPc = "idle"

IpIdle ==
    /\ ipIn = [top |-> <<>>, mux |-> <<>>, name |-> <<>>, parameters |-> {}]
    /\ ipOrder = <<>>
    /\ ipVals = <<>>
    /\ ipIdx = 0
    /\ ipErr = <<>>
    /\ ipPc = "idle"

LdIdle ==
    /\ ldDir = <<>>
    /\ ldRefs = {}
    /\ ldSrc = {}
    /\ ldRound = 0
    /\ ldPc = "idle"

MnIdle ==
    /\ mnFiles = <<>>
    /\ mnIdx = 0
    /\ mnFail = 0
    /\ mnOut = <<>>
    /\ mnExit = 0 - 1
    /\ mnPc = "idle"

EnIdle ==
    /\ enRif = [data_width |-> 0, enum_defs |-> <<>>, pages |-> <<>>]
    /\ enIdx = 0
    /\ enDefs = <<>>
    /\ enPc = "idle"

MpIdle ==
    /\ mpIn = [data_width |-> 0,
               page |-> [name |-> "", registers |-> <<>>, instances |-> <<>>],
               params |-> <<>>]
    /\ mpIdx = 0
    /\ mpAddr = InstAddr_new(0)
    /\ mpSt = [regs |-> <<>>, from |-> <<>>, lut |-> <<>>, partials |-> <<>>, ok |-> TRUE]
    /\ mpPc = "idle"

NoLine == [ilvl |-> 0, k |-> "none", c |-> "Top", opened |-> "none"]

PsIdle ==
    /\ psStack = <<>>
    /\ psTop = [k |-> "None", name |-> ""]
    /\ psRifs = {}
    /\ psMux = {}
    /\ psLastObj = ""
    /\ psLastGroup = ""
    /\ psFile = 0
    /\ psLine = 0
    /\ psLast = NoLine
    /\ psPrev = NoLine
    /\ psPc = "idle"

NoAttr == [a |-> "none", trig |-> "-", clr |-> "-", hw0 |-> <<>>]

FkIdle ==
    /\ fkHw = <<>>
    /\ fkSw = "ReadWrite"
    /\ fkAcc = "RO"
    /\ fkLast = NoAttr
    /\ fkN = 0
    /\ fkPc = "idle"

NoPush == [group_type |-> "", group_name |-> "", info |-> [name |-> "", lsb |-> 0, width |-> 0, reset |-> 0]]

PdIdle ==
    /\ pdDict = <<>>
    /\ pdArgs = NoPush
    /\ pdRet = 0
    /\ pdN = 0

PtIdle ==
    /\ ptPort = "None"
    /\ ptPrev = "None"
    /\ ptVal = "None"
    /\ ptSet = {}
    /\ ptN = 0

FiIdle ==
    /\ fiDef = [fields |-> <<>>, array |-> [some |-> TRUE, idx |-> 0, dim |-> 0, def |-> TRUE]]
    /\ fiIdx = 0
    /\ fiNext = 0
    /\ fiInsts = <<>>

HwIdle ==
    /\ hwIn = [data_width |-> 0, pages |-> <<>>, params |-> <<>>]
    /\ hwIdx = 0
    /\ hwSt = [regs |-> <<>>, partials |-> <<>>, ok |-> TRUE]
    /\ hwImpl = [ok |-> TRUE, v |-> <<>>, err |-> ""]
    /\ hwRegs = <<>>
    /\ hwPc = "idle"

\* A cursor is created by InstAddr::new(incr)
CursorInit ==
    /\ MuxIdle
    /\ ExprIdle
    /\ ParIdle
    /\ PgIdle
    /\ IpIdle
    /\ LdIdle
    /\ MnIdle
    /\ EnIdle
    /\ MpIdle
    /\ PsIdle
    /\ FkIdle
    /\ PdIdle
    /\ PtIdle
    /\ FiIdle
    /\ HwIdle
    /\ \E i \in IncrValues : cur = InstAddr_new(i)
    /\ curRet = 0
    /\ curOp = NoOp
    /\ curPrev = NoPrev

InBounds(r) == r.self.base <= MaxAddr /\ r.self.base >= 0 - MaxAddr

CursorStep(op, v, r) ==
    /\ InBounds(r)
    /\ UNCHANGED <<muxVars, exprVarsAll, parVars, pgVars, ipVars, ldVars, mnVars, enVars, mpVars, psVars, fkVars, pdVars, ptVars, fiVars, hwVars>>
    /\ cur' = r.self
    /\ curRet' = r.ret
    /\ curOp' = [op |-> op, v |-> v, base0 |-> cur.base]
    /\ curPrev' = [op |-> curOp.op, v |-> curOp.v, ret |-> curRet]

CursorUpdt ==
    \E v \in 0..MaxOffset, k \in AddressKind :
        CursorStep(k, v, InstAddr_updt(cur, v, k))

CursorIncr == CursorStep("incr", 0, InstAddr_incr(cur))

CursorDecr == CursorStep("decr", 0, InstAddr_decr(cur))

CursorNext == CursorUpdt \/ CursorIncr \/ CursorDecr

SpecCursor == CursorInit /\ [][CursorNext]_vars

----------------------------------------------------------------------------
(* Claims on the cursor *)

\* C1: for any cursor state (base, incr) and offset v: updt(v, Absolute) sets
\* base to v and returns v; updt(v, Relative) returns base + max(v, incr) and
\* leaves base unchanged; updt(v, RelativeSet) adds max(v, incr) to base and
\* returns the new base; incr() adds incr to base and returns the new base.
C1_CursorContract ==
    /\ curOp.op = "Absolute" => cur.base = curOp.v /\ curRet = curOp.v
    /\ curOp.op = "Relative" =>
          /\ curRet = curOp.base0 + Max(curOp.v, cur.incr)
          /\ cur.base = curOp.base0
    /\ curOp.op = "RelativeSet" =>
          /\ cur.base = curOp.base0 + Max(curOp.v, cur.incr)
          /\ curRet = cur.base
    /\ curOp.op = "incr" =>
          /\ cur.base = curOp.base0 + cur.incr
          /\ curRet = cur.base

\* Witness of C1: a Relative update whose offset is below incr was applied on
\* a cursor that an earlier operation had moved
C1_Witness ==
    /\ curOp.op = "Relative"
    /\ curOp.v < cur.incr
    /\ curPrev.op = "RelativeSet"
    /\ curOp.base0 > 0

\* C3 as stated: for any base and any incr, updt(0, Relative) right after
\* updt(v, RelativeSet) returns what updt(v, RelativeSet) returned, and
\* updt(v, Absolute) resets base to v and returns v.
C3_Original ==
    /\ (curOp.op = "Relative" /\ curOp.v = 0 /\ curPrev.op = "RelativeSet")
          => curRet = curPrev.ret
    /\ curOp.op = "Absolute" => cur.base = curOp.v /\ curRet = curOp.v

\* C3 amended: updt(0, Relative) right after updt(v, RelativeSet) returns the
\* value updt(v, RelativeSet) returned plus incr (the same value exactly when
\* incr = 0, as for the cursor of a Rifmux); updt(v, Absolute) resets base to
\* v and returns v.
C3_CursorAlgebra ==
    /\ (curOp.op = "Relative" /\ curOp.v = 0 /\ curPrev.op = "RelativeSet")
          => /\ curRet = curPrev.ret + cur.incr
             /\ (curRet = curPrev.ret) <=> (cur.incr = 0)
    /\ curOp.op = "Absolute" => cur.base = curOp.v /\ curRet = curOp.v

\* Witness of C3: Relative(0) issued right after a RelativeSet on a cursor
\* with a nonzero increment
C3_Witness ==
    /\ curOp.op = "Relative"
    /\ curOp.v = 0
    /\ curPrev.op = "RelativeSet"
    /\ cur.incr > 0

----------------------------------------------------------------------------
(* Expression engine: parse_expr and ExprTokens::eval (parser_expr.rs)      *)
(*                                                                          *)
(* The input of parse_expr is a sequence of characters.  A name (of a       *)
(* variable, of a parameter) is the sequence of its characters.  Numbers    *)
(* are written in decimal: the sized and hexadecimal forms of val_isize,    *)
(* val_f64 and the keywords true/false need characters the inputs of the    *)
(* model do not contain.  The evaluator computes in f64; the model computes *)
(* in integers and reports "nonint" where the f64 value is not an integer   *)
(* and "overflow" where it leaves the range of the model.                   *)

Digits == <<"0", "1", "2", "3", "4", "5", "6", "7", "8", "9">>

IsDigit(c) == \E i \in DOMAIN Digits : Digits[i] = c

DigitVal(c) == (CHOOSE i \in DOMAIN Digits : Digits[i] = c) - 1

IsAlpha(c) == c \in {"a", "b", "c", "d", "e", "f", "g", "h", "i", "j", "k", "l", "m",
                     "n", "o", "p", "q", "r", "s", "t", "u", "v", "w", "x", "y", "z"}

IsSpace(c) == c \in {" ", "\t", "\n"}

Drop(s, n) == SubSeq(s, n + 1, Len(s))

StartsWith(s, lit) == Len(s) >= Len(lit) /\ SubSeq(s, 1, Len(lit)) = lit

\* multispace0 / space0: the input without its leading white space
RECURSIVE SkipWs(_)
SkipWs(s) == IF s # <<>> /\ IsSpace(Head(s)) THEN SkipWs(Tail(s)) ELSE s

\* Tokens: [t, k, n, s] with t the variant, k the operator or function kind,
\* n the value of a Number, s the name of a Var
Tok(t, k, n, nm) == [t |-> t, k |-> k, n |-> n, s |-> nm]

TNum(v) == Tok("Number", "", v, <<>>)

TVar(nm) == Tok("Var", "", 0, nm)

TOp(op) == Tok("Operator", op, 0, <<>>)

TFunc(f) == Tok("FuncCall", f, 0, <<>>)

\* Result of a token parser: the token and the rest of the input, or an error
Fail == [ok |-> FALSE, tok |-> TNum(0), rest |-> <<>>]

\* ws(lit).value(tok)
WsLit(s, lit, tok) ==
    LET t == SkipWs(s)
    IN  IF StartsWith(t, lit)
        THEN [ok |-> TRUE, tok |-> tok, rest |-> SkipWs(Drop(t, Len(lit)))]
        ELSE Fail

\* alt((...)): the result of the first parser that succeeds
FirstOk(rs) ==
    IF \E i \in DOMAIN rs : rs[i].ok
    THEN rs[CHOOSE i \in DOMAIN rs : rs[i].ok /\ \A j \in 1..(i - 1) : ~rs[j].ok]
    ELSE Fail

\* operator: the alternatives in the order of the source
operator(s) ==
    FirstOk(<< WsLit(s, <<"+">>, TOp("Plus")),
               WsLit(s, <<"-">>, TOp("Minus")),
               WsLit(s, <<"*">>, TOp("Mult")),
               WsLit(s, <<"/">>, TOp("Div")),
               WsLit(s, <<"^">>, TOp("Pow")),
               WsLit(s, <<"%">>, TOp("Rem")),
               WsLit(s, <<"=", "=">>, TOp("Equal")),
               WsLit(s, <<"!", "=">>, TOp("NotEqual")),
               WsLit(s, <<">">>, TOp("Greater")),
               WsLit(s, <<">", "=">>, TOp("GreaterEq")),
               WsLit(s, <<"<">>, TOp("Lesser")),
               WsLit(s, <<"<", "=">>, TOp("LesserEq")),
               WsLit(s, <<"<", "<">>, TOp("ShiftLeft")),
               WsLit(s, <<">", ">">>, TOp("ShiftRight")) >>)

\* not: ws(alt(("not", "!", "~")))
not(s) ==
    FirstOk(<< WsLit(s, <<"n", "o", "t">>, TOp("Not")),
               WsLit(s, <<"!">>, TOp("Not")),
               WsLit(s, <<"~">>, TOp("Not")) >>)

parenl(s) == WsLit(s, <<"(">>, Tok("ParenL", "", 0, <<>>))

parenr(s) == WsLit(s, <<")">>, Tok("ParenR", "", 0, <<>>))

comma(s) == WsLit(s, <<",">>, Tok("Comma", "", 0, <<>>))

func_call(s) ==
    FirstOk(<< WsLit(s, <<"l", "o", "g", "2", "(">>, TFunc("Log2")),
               WsLit(s, <<"l", "o", "g", "1", "0", "(">>, TFunc("Log10")),
               WsLit(s, <<"p", "o", "w", "(">>, TFunc("Power")),
               WsLit(s, <<"i", "n", "t", "(">>, TFunc("Round")),
               WsLit(s, <<"r", "o", "u", "n", "d", "(">>, TFunc("Round")),
               WsLit(s, <<"c", "e", "i", "l", "(">>, TFunc("Ceil")),
               WsLit(s, <<"f", "l", "o", "o", "r", "(">>, TFunc("Floor")) >>)

\* Length of the longest prefix of s made of characters satisfying the class
RECURSIVE IdentTail(_)
IdentTail(s) ==
    IF s # <<>> /\ (IsAlpha(Head(s)) \/ IsDigit(Head(s)) \/ Head(s) = "_")
    THEN 1 + IdentTail(Tail(s)) ELSE 0

RECURSIVE DigitRun(_)
DigitRun(s) == IF s # <<>> /\ IsDigit(Head(s)) THEN 1 + DigitRun(Tail(s)) ELSE 0

RECURSIVE DecimalValue(_, _)
DecimalValue(s, acc) ==
    IF s = <<>> THEN acc ELSE DecimalValue(Tail(s), 10 * acc + DigitVal(Head(s)))

\* variable: delimited("$", identifier, space0)
variable(s) ==
    IF Len(s) >= 2 /\ s[1] = "$" /\ (IsAlpha(s[2]) \/ s[2] = "_")
    THEN LET n == 1 + IdentTail(Drop(s, 2))
         IN  [ok |-> TRUE, tok |-> TVar(SubSeq(s, 2, 1 + n)), rest |-> SkipWs(Drop(s, 1 + n))]
    ELSE Fail

\* idx: ws("i")
idx(s) == WsLit(s, <<"i">>, TVar(<<"i">>))

\* number: ws(val_isize), decimal form (opt(alt(("+", "-"))), digit1)
number(s) ==
    LET t == SkipWs(s)
        signed == t # <<>> /\ Head(t) \in {"+", "-"}
        d == IF signed THEN Tail(t) ELSE t
        n == DigitRun(d)
        v == DecimalValue(SubSeq(d, 1, n), 0)
    IN  IF n = 0 THEN Fail
        ELSE [ok |-> TRUE,
              tok |-> TNum(IF signed /\ Head(t) = "-" THEN 0 - v ELSE v),
              rest |-> SkipWs(Drop(d, n))]

\* precedence(op)
precedence(op) ==
    CASE op = "Not" -> 2
      [] op \in {"Mult", "Div", "Rem"} -> 3
      [] op \in {"Plus", "Minus"} -> 4
      [] op \in {"Pow", "ShiftLeft", "ShiftRight"} -> 5
      [] op \in {"Greater", "GreaterEq", "Lesser", "LesserEq"} -> 6
      [] op \in {"Equal", "NotEqual"} -> 7

\* The token read by one iteration of the loop of parse_expr
NextToken(s, cntxt, state) ==
    IF state = "Operand"
    THEN FirstOk(<<parenl(s), variable(s), idx(s), number(s), func_call(s), not(s)>>)
    ELSE IF cntxt = <<>> THEN operator(s)
    ELSE IF cntxt[Len(cntxt)].k = "SubExpr" \/ cntxt[Len(cntxt)].n = 0
         THEN FirstOk(<<operator(s), parenr(s)>>)
         ELSE FirstOk(<<operator(s), comma(s)>>)

\* while let Some(t) = op_stack.last(): the operators moved to the output
\* when the binary operator op_r is read
RECURSIVE PopOperators(_, _, _)
PopOperators(op_r, op_stack, tokens) ==
    IF /\ op_stack # <<>>
       /\ op_stack[Len(op_stack)].t = "Operator"
       /\ precedence(op_r) >= precedence(op_stack[Len(op_stack)].k)
    THEN PopOperators(op_r, SubSeq(op_stack, 1, Len(op_stack) - 1),
                      Append(tokens, op_stack[Len(op_stack)]))
    ELSE [op_stack |-> op_stack, tokens |-> tokens]

\* while let Some(op) = op_stack.pop(): the stack popped on a closing
\* parenthesis
RECURSIVE PopToParen(_, _)
PopToParen(op_stack, tokens) ==
    IF op_stack = <<>> THEN [op_stack |-> op_stack, tokens |-> tokens]
    ELSE LET op == op_stack[Len(op_stack)]
             rest == SubSeq(op_stack, 1, Len(op_stack) - 1)
         IN  CASE op.t = "ParenL" -> [op_stack |-> rest, tokens |-> tokens]
               [] op.t = "FuncCall" -> [op_stack |-> rest, tokens |-> Append(tokens, op)]
               [] OTHER -> PopToParen(rest, Append(tokens, op))

RECURSIVE Reverse(_)
Reverse(s) == IF s = <<>> THEN <<>> ELSE Append(Reverse(Tail(s)), Head(s))

\* The loop of parse_expr and the final emptying of the operator stack
RECURSIVE ParseLoop(_, _, _, _, _)
ParseLoop(s, tokens, op_stack, cntxt, state) ==
    IF s = <<>> THEN [ok |-> TRUE, tokens |-> tokens \o Reverse(op_stack)]
    ELSE LET r == NextToken(s, cntxt, state)
             token == r.tok
         IN  IF ~r.ok THEN [ok |-> FALSE, tokens |-> <<>>]
             ELSE CASE token.t \in {"Number", "Var"} ->
                         ParseLoop(r.rest, Append(tokens, token), op_stack, cntxt, "Operator")
                    [] token.t = "Operator" /\ token.k = "Not" ->
                         ParseLoop(r.rest, tokens, Append(op_stack, token), cntxt, state)
                    [] token.t = "Operator" /\ token.k # "Not" ->
                         LET p == PopOperators(token.k, op_stack, tokens)
                         IN  ParseLoop(r.rest, p.tokens, Append(p.op_stack, token), cntxt,
                                       "Operand")
                    [] token.t = "FuncCall" ->
                         ParseLoop(r.rest, tokens, Append(op_stack, token),
                                   Append(cntxt, [k |-> "FuncCall",
                                                  n |-> IF token.k = "Power" THEN 1 ELSE 0]),
                                   state)
                    [] token.t = "ParenL" ->
                         ParseLoop(r.rest, tokens, Append(op_stack, token),
                                   Append(cntxt, [k |-> "SubExpr", n |-> 0]), state)
                    [] token.t = "ParenR" ->
                         LET p == PopToParen(op_stack, tokens)
                         IN  ParseLoop(r.rest, p.tokens, p.op_stack,
                                       SubSeq(cntxt, 1, Len(cntxt) - 1), state)
                    [] token.t = "Comma" ->
                         ParseLoop(r.rest, tokens, op_stack,
                                   [cntxt EXCEPT ![Len(cntxt)].n = @ - 1], "Operand")

\* parse_expr(input)
parse_expr(input) == ParseLoop(input, <<>>, <<>>, <<>>, "Operand")

\* ParamValues (an ordered map from names to isize): a sequence of entries
\* [k, v] with distinct names
contains_key(params, k) == \E i \in DOMAIN params : params[i].k = k

ParamGet(params, k) == params[CHOOSE i \in DOMAIN params : params[i].k = k].v

ParamInsert(params, k, v) ==
    IF contains_key(params, k)
    THEN [i \in DOMAIN params |-> IF params[i].k = k THEN [k |-> k, v |-> v] ELSE params[i]]
    ELSE Append(params, [k |-> k, v |-> v])

MaxBits == 30

Abs(a) == IF a < 0 THEN 0 - a ELSE a

\* An evaluation result: st is "ok" or the reason why there is no value
Val(v) == [st |-> "ok", v |-> v]

NoVal(st) == [st |-> st, v |-> 0]

\* The number of bits of n >= 0
Bits(n) == CHOOSE k \in 1..31 : n < 2 ^ k /\ (k = 1 \/ n >= 2 ^ (k - 1))

\* f64::powf on integral arguments
powf(v1, v2) ==
    IF v2 >= 0
    THEN (IF v1 = 0 THEN Val(IF v2 = 0 THEN 1 ELSE 0)
          ELSE IF Abs(v1) = 1 THEN Val(IF v1 = 1 \/ v2 % 2 = 0 THEN 1 ELSE 0 - 1)
          ELSE IF v2 * Bits(Abs(v1) - 1) >= MaxBits THEN NoVal("overflow")
          ELSE Val((IF v1 < 0 /\ v2 % 2 = 1 THEN 0 - 1 ELSE 1) * (Abs(v1) ^ v2)))
    ELSE IF v1 = 1 THEN Val(1)
    ELSE IF v1 = 0 - 1 THEN Val(IF v2 % 2 = 0 THEN 1 ELSE 0 - 1)
    ELSE NoVal("nonint")

\* The match on op of ExprTokens::eval
BinOp(op, v1, v2) ==
    CASE op = "Plus" -> Val(v1 + v2)
      [] op = "Minus" -> Val(v1 - v2)
      [] op = "Mult" -> IF Bits(Abs(v1)) + Bits(Abs(v2)) >= MaxBits THEN NoVal("overflow")
                        ELSE Val(v1 * v2)
      [] op = "Div" -> IF v2 # 0 /\ v1 % Abs(v2) = 0
                       THEN Val((v1 \div Abs(v2)) * (IF v2 < 0 THEN 0 - 1 ELSE 1))
                       ELSE NoVal("nonint")
      [] op = "Rem" -> IF v2 = 0 THEN NoVal("panic")
                       ELSE Val((IF v1 < 0 THEN 0 - 1 ELSE 1) * (Abs(v1) % Abs(v2)))
      [] op = "Pow" -> powf(v1, v2)
      [] op = "Not" -> Val(IF v1 = 0 THEN 1 ELSE 0)
      [] op = "ShiftLeft" -> IF Bits(Abs(v1)) + v2 >= MaxBits THEN NoVal("overflow")
                             ELSE Val(v1 * 2 ^ (IF v2 < 0 THEN 0 ELSE v2))
      [] op = "ShiftRight" -> IF v2 > MaxBits THEN NoVal("overflow")
                              ELSE Val(v1 \div 2 ^ (IF v2 < 0 THEN 0 ELSE v2))
      [] op = "Equal" -> Val(IF v1 = v2 THEN 1 ELSE 0)
      [] op = "NotEqual" -> Val(IF v1 # v2 THEN 1 ELSE 0)
      [] op = "Greater" -> Val(IF v1 > v2 THEN 1 ELSE 0)
      [] op = "GreaterEq" -> Val(IF v1 >= v2 THEN 1 ELSE 0)
      [] op = "Lesser" -> Val(IF v1 < v2 THEN 1 ELSE 0)
      [] op = "LesserEq" -> Val(IF v1 <= v2 THEN 1 ELSE 0)

\* The loop of ExprTokens::eval over the tokens, values being the stack
RECURSIVE EvalLoop(_, _, _)
EvalLoop(tokens, values, variables) ==
    IF tokens = <<>>
    THEN (IF Len(values) = 1 THEN Val(values[1]) ELSE NoVal("Malformed"))
    ELSE LET token == Head(tokens)
             n == Len(values)
         IN  CASE token.t = "Number" -> EvalLoop(Tail(tokens), Append(values, token.n), variables)
               [] token.t = "Var" ->
                    IF contains_key(variables, token.s)
                    THEN EvalLoop(Tail(tokens), Append(values, ParamGet(variables, token.s)),
                                  variables)
                    ELSE NoVal("UnknownVar")
               [] token.t = "Operator" /\ token.k = "Not" ->
                    IF n < 1 THEN NoVal("Malformed")
                    ELSE EvalLoop(Tail(tokens),
                                  [values EXCEPT ![n] = BinOp("Not", values[n], 0).v], variables)
               [] token.t = "Operator" /\ token.k # "Not" ->
                    IF n < 2 THEN NoVal("Malformed")
                    ELSE LET res == BinOp(token.k, values[n - 1], values[n])
                         IN  IF res.st # "ok" THEN res
                             ELSE EvalLoop(Tail(tokens),
                                           Append(SubSeq(values, 1, n - 2), res.v), variables)
               [] token.t = "FuncCall" /\ token.k = "Power" ->
                    IF n < 2 THEN NoVal("Malformed")
                    ELSE LET res == powf(values[n - 1], values[n])
                         IN  IF res.st # "ok" THEN res
                             ELSE EvalLoop(Tail(tokens),
                                           Append(SubSeq(values, 1, n - 2), res.v), variables)
               [] token.t = "FuncCall" /\ token.k \in {"Round", "Ceil", "Floor"} ->
                    IF n < 1 THEN NoVal("Malformed")
                    ELSE EvalLoop(Tail(tokens), values, variables)
               [] token.t = "FuncCall" /\ token.k \in {"Log2", "Log10"} ->
                    IF n < 1 THEN NoVal("Malformed") ELSE NoVal("nonint")
               [] OTHER -> NoVal("Malformed")

\* ExprTokens::eval(variables)
eval(tokens, variables) ==
    IF tokens = <<>> THEN Val(0) ELSE EvalLoop(tokens, <<>>, variables)

----------------------------------------------------------------------------
(* Expressions given to the engine, and their value by the precedence table *)

\* The spelling of the binary operators
Spell(op) ==
    CASE op = "Plus" -> <<"+">>
      [] op = "Minus" -> <<"-">>
      [] op = "Mult" -> <<"*">>
      [] op = "Rem" -> <<"%">>
      [] op = "Pow" -> <<"^">>
      [] op = "ShiftLeft" -> <<"<", "<">>
      [] op = "ShiftRight" -> <<">", ">">>
      [] op = "Equal" -> <<"=", "=">>
      [] op = "NotEqual" -> <<"!", "=">>
      [] op = "Lesser" -> <<"<">>
      [] op = "LesserEq" -> <<"<", "=">>
      [] op = "Greater" -> <<">">>
      [] op = "GreaterEq" -> <<">", "=">>

RoundTripOps == {"Plus", "Minus", "Mult", "Rem", "Pow", "ShiftLeft", "ShiftRight",
                 "Equal", "NotEqual", "Lesser", "LesserEq", "Greater", "GreaterEq"}

RoundTripOperands == { <<"0">>, <<"2">>, <<"$", "x">> }

RoundTripVars == << [k |-> <<"x">>, v |-> 1] >>

PowOps == {"Plus", "Minus", "Mult"}

PowBases == { <<"1">>, <<"2">> }

PowExponents == { <<"1">>, <<"2">>, <<"$", "x">> }

PowVars == << [k |-> <<"x">>, v |-> 17] >>

In(form, a, op1, b, op2, c, d, tail) ==
    [form |-> form, a |-> a, op1 |-> op1, b |-> b, op2 |-> op2, c |-> c, d |-> d,
     tail |-> tail]

\* Expressions with one binary operator, without and with a not
OneOpInputs ==
    { In(f, a, op1, b, "", <<>>, <<>>, "") :
        f \in {"bin", "notl", "notr", "notp"},
        a \in RoundTripOperands, op1 \in RoundTripOps, b \in RoundTripOperands }

\* Expressions with two binary operators, without and with parentheses
TwoOpInputs ==
    { In(f, a, op1, b, op2, c, <<>>, "") :
        f \in {"flat", "left", "right"},
        a \in RoundTripOperands, op1 \in RoundTripOps, b \in RoundTripOperands,
        op2 \in RoundTripOps, c \in RoundTripOperands }

\* Calls pow(A, B), with A and B an operand or a binary expression, alone or
\* followed by "- 1"
PowInputs ==
    { In("pow", a, op1, b, op2, c, d, tail) :
        a \in PowBases, op1 \in PowOps \cup {""}, b \in PowBases,
        op2 \in PowOps \cup {""}, c \in PowExponents, d \in PowExponents,
        tail \in {"", "Minus1"} }

\* The text of a sub-expression: x, or x op y
SubText(x, op, y) == IF op = "" THEN x ELSE x \o Spell(op) \o y

\* The text of an input
Text(in) ==
    CASE in.form = "bin" -> in.a \o Spell(in.op1) \o in.b
      [] in.form = "notl" -> <<"!">> \o in.a \o Spell(in.op1) \o in.b
      [] in.form = "notr" -> in.a \o Spell(in.op1) \o <<"!">> \o in.b
      [] in.form = "notp" -> <<"!", "(">> \o in.a \o Spell(in.op1) \o in.b \o <<")">>
      [] in.form = "flat" -> in.a \o Spell(in.op1) \o in.b \o Spell(in.op2) \o in.c
      [] in.form = "left" ->
            <<"(">> \o in.a \o Spell(in.op1) \o in.b \o <<")">> \o Spell(in.op2) \o in.c
      [] in.form = "right" ->
            in.a \o Spell(in.op1) \o <<"(">> \o in.b \o Spell(in.op2) \o in.c \o <<")">>
      [] in.form = "pow" ->
            <<"p", "o", "w", "(">> \o SubText(in.a, in.op1, in.b) \o <<",", " ">>
            \o SubText(in.c, in.op2, in.d) \o <<")">>
            \o (IF in.tail = "Minus1" THEN <<" ", "-", " ", "1">> ELSE <<>>)

\* The value of an operand: a decimal literal or a bound variable
OperandValue(o, variables) ==
    IF Head(o) = "$" THEN Val(ParamGet(variables, Tail(o))) ELSE Val(DecimalValue(o, 0))

\* The value of x op y, x and y being values or the lack of one
Apply(op, x, y) ==
    IF x.st # "ok" THEN x ELSE IF y.st # "ok" THEN y ELSE BinOp(op, x.v, y.v)

\* The value of an input: the operands combined as the form of the input
\* says, a text without parentheses as the precedence table says (a lower
\* precedence binds tighter, equal precedences associate to the left)
Value(in, variables) ==
    LET a == OperandValue(in.a, variables)
        b == OperandValue(in.b, variables)
        c == OperandValue(in.c, variables)
        d == OperandValue(in.d, variables)
        Not(x) == Apply("Not", x, Val(0))
        Sub(x, op, y) == IF op = "" THEN x ELSE Apply(op, x, y)
    IN  CASE in.form = "bin" -> Apply(in.op1, a, b)
          [] in.form = "notl" -> Apply(in.op1, Not(a), b)
          [] in.form = "notr" -> Apply(in.op1, a, Not(b))
          [] in.form = "notp" -> Not(Apply(in.op1, a, b))
          [] in.form = "flat" ->
                IF precedence(in.op1) <= precedence(in.op2)
                THEN Apply(in.op2, Apply(in.op1, a, b), c)
                ELSE Apply(in.op1, a, Apply(in.op2, b, c))
          [] in.form = "left" -> Apply(in.op2, Apply(in.op1, a, b), c)
          [] in.form = "right" -> Apply(in.op1, a, Apply(in.op2, b, c))
          [] in.form = "pow" ->
                LET p == Apply("Pow", Sub(a, in.op1, b), Sub(c, in.op2, d))
                IN  IF in.tail = "Minus1" THEN Apply("Minus", p, Val(1)) ELSE p

ExprInit ==
    /\ PgIdle
    /\ CurIdle
    /\ MuxIdle
    /\ ParIdle
    /\ IpIdle
    /\ LdIdle
    /\ MnIdle
    /\ EnIdle
    /\ MpIdle
    /\ PsIdle
    /\ FkIdle
    /\ PdIdle
    /\ PtIdle
    /\ FiIdle
    /\ HwIdle
    /\ exprIn \in OneOpInputs \cup TwoOpInputs \cup PowInputs
    /\ exprSrc = Text(exprIn)
    /\ exprVars = IF exprIn.form = "pow" THEN PowVars ELSE RoundTripVars
    /\ exprRpn = [ok |-> FALSE, tokens |-> <<>>]
    /\ exprRes = [st |-> "none", v |-> 0]
    /\ exprPc = "input"

\* parse_expr(&mut input)
ExprParse ==
    /\ exprPc = "input"
    /\ exprRpn' = parse_expr(exprSrc)
    /\ exprPc' = IF exprRpn'.ok THEN "parsed" ELSE "failed"
    /\ UNCHANGED <<exprIn, exprSrc, exprVars, exprRes>>
    /\ UNCHANGED <<curVars, muxVars, parVars, pgVars, ipVars, ldVars, mnVars, enVars, mpVars, psVars, fkVars, pdVars, ptVars, fiVars, hwVars>>

\* expr.eval(&variables)
ExprEval ==
    /\ exprPc = "parsed"
    /\ exprRes' = eval(exprRpn.tokens, exprVars)
    /\ exprPc' = "done"
    /\ UNCHANGED <<exprIn, exprSrc, exprVars, exprRpn>>
    /\ UNCHANGED <<curVars, muxVars, parVars, pgVars, ipVars, ldVars, mnVars, enVars, mpVars, psVars, fkVars, pdVars, ptVars, fiVars, hwVars>>

ExprNext == ExprParse \/ ExprEval

SpecExpr == ExprInit /\ [][ExprNext]_vars

RoundTripForms == {"bin", "notl", "notr", "notp", "flat", "left", "right"}

\* C8: every expression built from literals, bound variables, parentheses,
\* not and the binary operators + - * % ^ << >> == != < <= > >= is accepted
\* by parse_expr, and the evaluation of its RPN gives the value of the
\* expression by the precedence table, whenever that value is defined.
C8_RoundTrip ==
    exprIn.form \in RoundTripForms =>
        /\ exprPc # "failed"
        /\ (exprPc = "done" /\ Value(exprIn, exprVars).st = "ok")
              => exprRes = Value(exprIn, exprVars)

\* C9: pow(A, B) evaluates to the value of A raised to the power of the value
\* of B, for A and B an operand or a binary expression, and the result of the
\* call can be the left operand of a following operator.
C9_PowCall ==
    exprIn.form = "pow" =>
        /\ exprPc # "failed"
        /\ (exprPc = "done" /\ Value(exprIn, exprVars).st = "ok")
              => exprRes = Value(exprIn, exprVars)

----------------------------------------------------------------------------
(* ParamValues::compile (parser_expr.rs), called by RifInst::new            *)
(* (comp_inst.rs) on a copy of the binding of the caller                    *)

MaxParams == 3

ParamNames == << <<"a">>, <<"b">>, <<"c">> >>

\* The expressions of the declared parameters, as parse_expr gives them
ParamExprs ==
    { parse_expr(src).tokens :
        src \in { <<"1">>, <<"$", "a", "+", "1">>, <<"$", "b", "*", "2">>,
                  <<"$", "c", "+", "$", "a">> } }

\* The bindings of the caller: each name unbound or bound to 5, in any order
TopBindings ==
    UNION { { [i \in 1..n |-> [k |-> ParamNames[f[i]], v |-> 5]] :
                f \in { g \in [1..n -> 1..Len(ParamNames)] :
                          \A i, j \in 1..n : i # j => g[i] # g[j] } } :
            n \in 0..Len(ParamNames) }

\* The parameters of a RIF: an OrderDict, hence distinct names, in
\* declaration order
ParamDecls ==
    UNION { { [i \in 1..n |-> [k |-> ParamNames[f[i]], e |-> e[i]]] :
                f \in { g \in [1..n -> 1..Len(ParamNames)] :
                          \A i, j \in 1..n : i # j => g[i] # g[j] },
                e \in [1..n -> ParamExprs] } :
            n \in 1..MaxParams }

ParamInit ==
    /\ PgIdle
    /\ CurIdle
    /\ MuxIdle
    /\ ExprIdle
    /\ IpIdle
    /\ LdIdle
    /\ MnIdle
    /\ EnIdle
    /\ MpIdle
    /\ PsIdle
    /\ FkIdle
    /\ PdIdle
    /\ PtIdle
    /\ FiIdle
    /\ HwIdle
    /\ parTop \in TopBindings
    /\ parDecl \in ParamDecls
    /\ parVals = <<>>
    /\ parIdx = 0
    /\ parEvald = <<>>
    /\ parPc = "new"

\* Mutant of CompileSkips: no declared parameter is skipped
CompileSkips_mut(params, name) == FALSE

\* if self.0.contains_key(name) { continue; }
CompileSkips(params, name) == contains_key(params, name)

\* let mut params = top_params.clone();
RifInstNewClone ==
    /\ parPc = "new"
    /\ parVals' = parTop
    /\ parPc' = "compile"
    /\ UNCHANGED <<parTop, parDecl, parIdx, parEvald>>
    /\ UNCHANGED <<curVars, muxVars, exprVarsAll, pgVars, ipVars, ldVars, mnVars, enVars, mpVars, psVars, fkVars, pdVars, ptVars, fiVars, hwVars>>

\* One iteration of the loop of compile on a name that is already bound
CompileSkip ==
    /\ parPc = "compile"
    /\ parIdx < Len(parDecl)
    /\ CompileSkips(parVals, parDecl[parIdx + 1].k)
    /\ parIdx' = parIdx + 1
    /\ UNCHANGED <<parTop, parDecl, parVals, parEvald, parPc>>
    /\ UNCHANGED <<curVars, muxVars, exprVarsAll, pgVars, ipVars, ldVars, mnVars, enVars, mpVars, psVars, fkVars, pdVars, ptVars, fiVars, hwVars>>

\* One iteration of the loop of compile on a name that is not bound: the
\* expression is evaluated against self and the value inserted, or the
\* compilation ends on the error of the evaluation
CompileEval ==
    /\ parPc = "compile"
    /\ parIdx < Len(parDecl)
    /\ ~CompileSkips(parVals, parDecl[parIdx + 1].k)
    /\ LET d == parDecl[parIdx + 1]
           v == eval(d.e, parVals)
       IN  IF v.st = "ok"
           THEN /\ parVals' = ParamInsert(parVals, d.k, v.v)
                /\ parPc' = parPc
           ELSE /\ parVals' = parVals
                /\ parPc' = "err"
    /\ parEvald' = Append(parEvald, parIdx + 1)
    /\ parIdx' = parIdx + 1
    /\ UNCHANGED <<parTop, parDecl>>
    /\ UNCHANGED <<curVars, muxVars, exprVarsAll, pgVars, ipVars, ldVars, mnVars, enVars, mpVars, psVars, fkVars, pdVars, ptVars, fiVars, hwVars>>

\* Ok(())
CompileDone ==
    /\ parPc = "compile"
    /\ parIdx = Len(parDecl)
    /\ parPc' = "done"
    /\ UNCHANGED <<parTop, parDecl, parVals, parIdx, parEvald>>
    /\ UNCHANGED <<curVars, muxVars, exprVarsAll, pgVars, ipVars, ldVars, mnVars, enVars, mpVars, psVars, fkVars, pdVars, ptVars, fiVars, hwVars>>

ParamNext == RifInstNewClone \/ CompileSkip \/ CompileEval \/ CompileDone

SpecParams == ParamInit /\ [][ParamNext]_vars

\* The declared parameters whose name the caller did not bind, in
\* declaration order
RECURSIVE Unbound(_, _, _)
Unbound(decl, top, i) ==
    IF i > Len(decl) THEN <<>>
    ELSE (IF contains_key(top, decl[i].k) THEN <<>> ELSE <<i>>) \o Unbound(decl, top, i + 1)

\* C10: the binding of a RIF starts as the copy of the binding of the caller;
\* a step of compile keeps every entry already in the binding and adds at
\* most one at its end; the parameters evaluated so far are exactly the
\* visited ones the caller did not bind, in declaration order, each added
\* with the value of its expression over the binding accumulated before it.
C10_FirstBindingWins ==
    /\ [](parPc \in {"compile", "done", "err"} =>
            /\ SubSeq(parVals, 1, Len(parTop)) = parTop
            /\ parEvald = Unbound(SubSeq(parDecl, 1, parIdx), parTop, 1)
            /\ \A j \in (Len(parTop) + 1)..Len(parVals) :
                  LET d == parDecl[parEvald[j - Len(parTop)]]
                  IN  /\ parVals[j].k = d.k
                      /\ Val(parVals[j].v) = eval(d.e, SubSeq(parVals, 1, j - 1)))
    /\ [][parPc = "compile" =>
            /\ Len(parVals') <= Len(parVals) + 1
            /\ SubSeq(parVals', 1, Len(parVals)) = parVals]_vars

\* A compilation that ended well although a declared parameter, bound by the
\* caller, has an expression that cannot be evaluated, and in which another
\* parameter was evaluated over the value of the caller
C10_Witness ==
    /\ parPc = "done"
    /\ \E i \in DOMAIN parDecl :
          /\ contains_key(parTop, parDecl[i].k)
          /\ eval(parDecl[i].e, parVals).st # "ok"
          /\ ParamGet(parVals, parDecl[i].k) = 5
    /\ \E j \in DOMAIN parVals : parVals[j].v = 6

----------------------------------------------------------------------------
(* Elaboration of a page in auto-instantiation mode: RifPageInst::new,      *)
(* reg_auto_inst, RifRegInst::new, RifFieldInst::new, the dictionary of     *)
(* partial fields (comp_inst.rs) and the fields of the register             *)
(* implementations (reg_impl.rs)                                            *)
(*                                                                          *)
(* Fields are not arrays (array size 0: one RifFieldInst per field, no      *)
(* array index), the reset values of the interrupt descriptors are          *)
(* Unsigned, and the names built by string formatting (reg_name) are left   *)
(* out.  u128 values stay far below 2^128.                                  *)

\* Bitwise or of two naturals
RECURSIVE BitOr(_, _)
BitOr(a, b) ==
    IF a = 0 THEN b
    ELSE IF b = 0 THEN a
    ELSE (IF a % 2 = 1 \/ b % 2 = 1 THEN 1 ELSE 0) + 2 * BitOr(a \div 2, b \div 2)

\* ResetVal: Unsigned(v) or Signed(v)
Unsigned(v) == [signed |-> FALSE, v |-> v]

Signed(v) == [signed |-> TRUE, v |-> v]

\* ResetVal::to_u128(w)
to_u128(reset, w) == IF reset.signed THEN reset.v % (2 ^ w) ELSE reset.v

\* Field of a register definition: pos is [kind, lsb, width] with kind
\* "LsbSize" or "Size"; partial is the position in the whole field
\* (partial.0), or -1; part_idx is the index in the whole array (partial.1);
\* reset is the first of resets
Field(name, kind, lsb, width, reset, partial) ==
    [name |-> name, pos |-> [kind |-> kind, lsb |-> lsb, width |-> width],
     reset |-> reset, partial |-> partial, array |-> 0, array_pos_incr |-> 0,
     part_idx |-> 0, resets |-> <<reset>>, hw_kind |-> <<>>]

\* A field with an array size, one reset per element, a partial index and
\* hardware kinds
FieldArray(name, lsb, width, resets, partial, array, part_idx, hw_kind) ==
    [Field(name, "LsbSize", lsb, width, resets[1], partial)
        EXCEPT !.array = array, !.part_idx = part_idx, !.resets = resets,
               !.hw_kind = hw_kind]

\* Option<ArrayIdx>: None, Some(ArrayIdx::Def(i, dim)) or
\* Some(ArrayIdx::Inst(i, dim))
NoArrayIdx == [some |-> FALSE, idx |-> 0, dim |-> 0, def |-> TRUE]

ArrayIdx(i, dim, is_def) == [some |-> TRUE, idx |-> i, dim |-> dim, def |-> is_def]

\* RifFieldInst::new(field, next_lsb, params, array): the instance and the
\* new value of next_lsb
RifFieldInst_new(field, next_lsb, array) ==
    LET lsb0 == IF field.pos.kind = "Size" THEN next_lsb ELSE field.pos.lsb
        width == field.pos.width
        incr == IF field.array_pos_incr < width THEN width ELSE field.array_pos_incr
        rst_idx == array.idx + (IF array.def THEN array.dim ELSE 0)
    IN  [inst |-> [name |-> field.name,
                   lsb |-> IF array.some THEN lsb0 + array.idx * incr ELSE lsb0,
                   width |-> width,
                   reset |-> IF array.some /\ Len(field.resets) > rst_idx
                             THEN field.resets[rst_idx + 1]
                             ELSE field.reset,
                   partial |-> field.partial,
                   array |-> IF array.some
                             THEN [idx |-> array.dim + array.idx, dim |-> field.array]
                             ELSE [idx |-> 0, dim |-> 0]],
         next_lsb |-> next_lsb + width]

\* for i in 0..nb: fields.push(RifFieldInst::new(f, &mut next_lsb, ...)) from
\* the element i on; acc is fields
RECURSIVE FieldElements(_, _, _, _, _)
FieldElements(f, next_lsb, r_array, i, acc) ==
    LET nb == Max(f.array, 1)
        offset == r_array.idx * nb + f.part_idx
        arr_idx == IF f.array > 0
                   THEN ArrayIdx(i, offset, r_array.dim > 0 /\ r_array.def)
                   ELSE NoArrayIdx
        r == RifFieldInst_new(f, next_lsb, arr_idx)
    IN  IF i >= nb THEN [insts |-> acc, next_lsb |-> next_lsb]
        ELSE FieldElements(f, r.next_lsb, r_array, i + 1, Append(acc, r.inst))

\* for f in def.fields.iter(): the field instances of a register whose
\* array index is r_array; acc is fields
RECURSIVE FieldInsts(_, _, _, _)
FieldInsts(fields, next_lsb, r_array, acc) ==
    IF fields = <<>> THEN acc
    ELSE LET r == FieldElements(Head(fields), next_lsb, r_array, 0, acc)
         IN  FieldInsts(Tail(fields), r.next_lsb, r_array, r.insts)

\* InterruptInfo::get_rst_desc(kind): the reset of a derived register, or
\* none
NoReset == [some |-> FALSE, v |-> Unsigned(0)]

SomeReset(v) == [some |-> TRUE, v |-> v]

get_rst_desc(info, kind) ==
    CASE kind = "Enable" -> info.enable
      [] kind = "Mask" -> info.mask
      [] kind = "Pending" /\ info.pending -> SomeReset(Unsigned(0))
      [] OTHER -> NoReset

\* The field resets of a derived interrupt register: the slices of r.reset
DerivedFields(fields, reset) ==
    [i \in DOMAIN fields |->
        LET f == fields[i]
            val == (reset \div (2 ^ f.lsb)) % (2 ^ f.width)
        IN  [f EXCEPT !.reset =
                IF f.reset.signed
                THEN Signed(val - (IF val >= 2 ^ (f.width - 1) THEN 2 ^ f.width ELSE 0))
                ELSE Unsigned(val)]]

\* PartialFieldInfo::new(inst)
PartialFieldInfo_new(inst) ==
    [name |-> inst.name, lsb |-> IF inst.partial >= 0 THEN inst.partial ELSE 0,
     width |-> inst.width, reset |-> to_u128(inst.reset, inst.width)]

\* Mutant of PartialFieldDict_push: a new occurrence of the group replaces
\* the last one
PartialFieldDict_push_mut(dict, group_type, group_name, info) ==
    IF \E i \in DOMAIN dict : dict[i].k = group_type
    THEN LET i == CHOOSE j \in DOMAIN dict : dict[j].k = group_type
             infos == dict[i].v
             new == [infos EXCEPT ![Len(infos)] = [name |-> group_name, list |-> <<info>>]]
         IN  [dict |-> [dict EXCEPT ![i].v = new], idx |-> Len(new) - 1]
    ELSE [dict |-> Append(dict, [k |-> group_type,
                                 v |-> << [name |-> group_name, list |-> <<info>>] >>]),
          idx |-> 0]

\* PartialFieldDict::push(group_type, group_name, info): the dictionary is a
\* sequence of entries [k, v], v the PartialFieldInfos of the group type, a
\* sequence of [name, list]; the result is the new dictionary and the index
\* returned
PartialFieldDict_push(dict, group_type, group_name, info) ==
    IF \E i \in DOMAIN dict : dict[i].k = group_type
    THEN LET i == CHOOSE j \in DOMAIN dict : dict[j].k = group_type
             infos == dict[i].v
             new == IF \E g \in DOMAIN infos : infos[g].name = group_name
                    THEN LET g == CHOOSE h \in DOMAIN infos :
                                     /\ infos[h].name = group_name
                                     /\ \A l \in 1..(h - 1) : infos[l].name # group_name
                         IN  [infos EXCEPT ![g].list = Append(@, info)]
                    ELSE Append(infos, [name |-> group_name, list |-> <<info>>])
         IN  [dict |-> [dict EXCEPT ![i].v = new], idx |-> Len(new) - 1]
    ELSE [dict |-> Append(dict, [k |-> group_type,
                                 v |-> << [name |-> group_name, list |-> <<info>>] >>]),
          idx |-> 0]

\* PartialFieldDict::get(group_type)
PartialFieldDict_get(dict, group_type) ==
    IF \E i \in DOMAIN dict : dict[i].k = group_type
    THEN [some |-> TRUE, v |-> dict[CHOOSE j \in DOMAIN dict : dict[j].k = group_type].v]
    ELSE [some |-> FALSE, v |-> <<>>]

\* The inner loop of merge over the slices of one group occurrence: the
\* running width and reset
RECURSIVE MergeGroup(_, _, _, _)
MergeGroup(list, field_name, width, reset) ==
    IF list = <<>> THEN [width |-> width, reset |-> reset]
    ELSE LET f == Head(list)
         IN  IF f.name = field_name
             THEN MergeGroup(Tail(list), field_name, Max(width, f.lsb + f.width),
                             BitOr(reset, f.reset * 2 ^ f.lsb))
             ELSE MergeGroup(Tail(list), field_name, width, reset)

\* PartialFieldInfos::merge(field_name, is_signed): the width and one reset
\* per group occurrence
RECURSIVE PartialFieldInfos_merge(_, _, _, _)
PartialFieldInfos_merge(infos, field_name, is_signed, width) ==
    IF infos = <<>> THEN [width |-> width, resets |-> <<>>]
    ELSE LET g == MergeGroup(Head(infos).list, field_name, width, 0)
             rest == PartialFieldInfos_merge(Tail(infos), field_name, is_signed, g.width)
         IN  [width |-> rest.width,
              resets |-> << IF is_signed THEN Signed(g.reset) ELSE Unsigned(g.reset) >>
                         \o rest.resets]

\* A register definition, and the entries of page.registers: a definition or
\* the include of all the registers of a page
RegDef(name, group, fields, array, interrupt, optional) ==
    [name |-> name, group |-> group, fields |-> fields, array |-> array,
     interrupt |-> interrupt, optional |-> optional]

Def(d) == [incl |-> FALSE, def |-> d, page |-> ""]

Include(page) == [incl |-> TRUE, def |-> RegDef("", "", <<>>, 0, <<>>, <<>>), page |-> page]

\* RegDef::ignored(params): the optional parameter is bound to 0
ignored(def, params) ==
    def.optional # <<>> /\ contains_key(params, def.optional)
        /\ ParamGet(params, def.optional) = 0

NoInst == [some |-> FALSE,
           v |-> [type_name |-> "", group_name |-> "", reg_override |-> <<>>]]

\* RifPage::find_reg_inst(name): the first instance of the type
find_reg_inst(page, name) ==
    IF \E i \in DOMAIN page.instances : page.instances[i].type_name = name
    THEN [some |-> TRUE,
          v |-> page.instances[CHOOSE i \in DOMAIN page.instances :
                    /\ page.instances[i].type_name = name
                    /\ \A j \in 1..(i - 1) : page.instances[j].type_name # name]]
    ELSE NoInst

\* Field override : reset (the other properties are not modelled)
RECURSIVE FieldOverrides(_, _)
FieldOverrides(fields, ovrs) ==
    IF ovrs = <<>> THEN [ok |-> TRUE, fields |-> fields]
    ELSE LET o == Head(ovrs)
         IN  IF \E i \in DOMAIN fields : fields[i].name = o.name
             THEN LET i == CHOOSE j \in DOMAIN fields :
                              /\ fields[j].name = o.name
                              /\ \A l \in 1..(j - 1) : fields[l].name # o.name
                  IN  FieldOverrides(
                          IF o.reset.some THEN [fields EXCEPT ![i].reset = o.reset.v]
                          ELSE fields,
                          Tail(ovrs))
             ELSE [ok |-> FALSE, fields |-> fields]

\* r.reset |= reset << f.lsb, for f in r.fields.iter()
RECURSIVE ResetFold(_, _)
ResetFold(fields, reset) ==
    IF fields = <<>> THEN reset
    ELSE ResetFold(Tail(fields),
                   BitOr(reset, to_u128(Head(fields).reset, Head(fields).width)
                                    * 2 ^ Head(fields).lsb))

\* rifs.partials.push(...) for the partial fields of r.fields, in order: the
\* new dictionary and the last index returned (group_idx)
RECURSIVE PushPartials(_, _, _, _, _)
PushPartials(fields, dict, group_type, group_name, group_idx) ==
    IF fields = <<>> THEN [dict |-> dict, idx |-> group_idx]
    ELSE IF Head(fields).partial >= 0
         THEN LET r == PartialFieldDict_push(dict, group_type, group_name,
                                             PartialFieldInfo_new(Head(fields)))
              IN  PushPartials(Tail(fields), r.dict, group_type, group_name, r.idx)
         ELSE PushPartials(Tail(fields), dict, group_type, group_name, group_idx)

\* r.fields.sort_unstable_by_key(|f| f.lsb): the fields of a register of the
\* model have distinct lsb, so the sorted order is unique
RECURSIVE SortByLsb(_)
SortByLsb(fields) ==
    IF fields = <<>> THEN <<>>
    ELSE LET i == CHOOSE j \in DOMAIN fields :
                     \A l \in DOMAIN fields : fields[j].lsb <= fields[l].lsb
         IN  <<fields[i]>> \o SortByLsb(SubSeq(fields, 1, i - 1)
                                         \o SubSeq(fields, i + 1, Len(fields)))

\* The arguments of RifRegInst::new: RegInstArgs::Basic, Arr(ArrayIdx::Def(i,
\* nb)) and Intr(kind, idx, true)
Basic == [k |-> "Basic", kind |-> "None", idx |-> 0, dim |-> 0, def |-> TRUE]

Arr(i, nb) == [k |-> "Arr", kind |-> "None", idx |-> i, dim |-> nb, def |-> TRUE]

Intr(kind, n) == [k |-> "Intr", kind |-> kind, idx |-> n, dim |-> 0, def |-> TRUE]

\* RegInstArgs::Arr(ArrayIdx::Inst(i, nb))
ArrInst(i, nb) == [Arr(i, nb) EXCEPT !.def = FALSE]

\* RifRegInst::new(def, addr, inst, args, rifs): st is "some" (Ok(Some(r))),
\* "none" (Ok(None)) or "err"; partials is rifs.partials after the call
RifRegInst_new(def, addr, inst, args, params, partials) ==
    LET group_name == IF inst.some /\ inst.v.group_name # "" THEN inst.v.group_name
                      ELSE def.group
        array == IF args.k = "Arr" THEN [idx |-> args.idx, dim |-> args.dim]
                 ELSE [idx |-> 0, dim |-> 0]
        fields0 == FieldInsts(def.fields, 0,
                              IF args.k = "Arr" THEN ArrayIdx(args.idx, args.dim, args.def)
                              ELSE ArrayIdx(0, 0, TRUE),
                              <<>>)
        info == IF args.k = "Intr" /\ args.kind \in {"Enable", "Mask", "Pending"}
                THEN get_rst_desc(def.interrupt[args.idx + 1], args.kind)
                ELSE NoReset
        reset0 == IF info.some THEN to_u128(info.v, 128) ELSE 0
        fields1 == IF info.some THEN DerivedFields(fields0, reset0) ELSE fields0
        ovr_idx == IF array.dim > 1 THEN array.idx ELSE 0 - 1
        ovrs == IF inst.some THEN inst.v.reg_override ELSE <<>>
        has_ovr == \E i \in DOMAIN ovrs : ovrs[i].idx = ovr_idx
        ovr == ovrs[CHOOSE i \in DOMAIN ovrs : ovrs[i].idx = ovr_idx]
        optional == IF has_ovr /\ ovr.optional # <<>> THEN eval(ovr.optional, params)
                    ELSE Val(1)
        fo == IF has_ovr THEN FieldOverrides(fields1, ovr.fields)
              ELSE [ok |-> TRUE, fields |-> fields1]
        pushed == PushPartials(fo.fields, partials, def.group, group_name, 0)
        r == [reg_type |-> def.name, group_type |-> def.group, group_name |-> group_name,
              kind |-> args.kind, intr_idx |-> IF args.k = "Intr" THEN args.idx ELSE 0,
              addr |-> addr, reset |-> ResetFold(fo.fields, reset0),
              fields |-> SortByLsb(fo.fields), array |-> array, group_idx |-> pushed.idx]
    IN  IF optional.st # "ok" THEN [st |-> "err", reg |-> r, partials |-> partials]
        ELSE IF optional.v = 0 THEN [st |-> "none", reg |-> r, partials |-> partials]
        ELSE IF ~fo.ok THEN [st |-> "err", reg |-> r, partials |-> partials]
        ELSE [st |-> "some", reg |-> r, partials |-> pushed.dict]

\* The RegInstArgs of the instances of a definition in auto mode, in order:
\* for an interrupt definition, per interrupt entry, Base then Enable, Mask
\* and Pending if declared; else one per element of an array of size > 1;
\* else Basic
RECURSIVE IntrArgs(_, _)
IntrArgs(interrupt, n) ==
    IF n >= Len(interrupt) THEN <<>>
    ELSE LET info == interrupt[n + 1]
         IN  <<Intr("Base", n)>>
             \o (IF info.enable.some THEN <<Intr("Enable", n)>> ELSE <<>>)
             \o (IF info.mask.some THEN <<Intr("Mask", n)>> ELSE <<>>)
             \o (IF info.pending THEN <<Intr("Pending", n)>> ELSE <<>>)
             \o IntrArgs(interrupt, n + 1)

AutoArgs(d) ==
    IF d.interrupt # <<>> THEN IntrArgs(d.interrupt, 0)
    ELSE IF d.array > 1 THEN [i \in 1..d.array |-> Arr(i - 1, d.array)]
    ELSE <<Basic>>

\* The state of a page elaboration: the registers of the page (p.regs), for
\* each of them the page whose definitions it was made from, rifs.partials,
\* the running address and whether an error was returned
PageSt(regs, from, partials, addr, ok) ==
    [regs |-> regs, from |-> from, partials |-> partials, addr |-> addr, ok |-> ok]

\* self.add_reg(RifRegInst::new(d, addr, inst, args, rifs)?); addr +=
\* addr_incr, for the arguments of one definition
RECURSIVE AddRegs(_, _, _, _, _, _, _)
AddRegs(st, d, inst, args, addr_incr, params, page_name) ==
    IF args = <<>> \/ ~st.ok THEN st
    ELSE LET r == RifRegInst_new(d, st.addr, inst, Head(args), params, st.partials)
         IN  IF r.st = "err" THEN [st EXCEPT !.ok = FALSE]
             ELSE AddRegs(
                     IF r.st = "some"
                     THEN PageSt(Append(st.regs, r.reg), Append(st.from, page_name),
                                 r.partials, st.addr + addr_incr, TRUE)
                     ELSE [st EXCEPT !.addr = st.addr + addr_incr],
                     d, inst, Tail(args), addr_incr, params, page_name)

\* Mutant of AutoDef: the instances of a definition all get the address of
\* its first slot
AutoDef_mut(st, page, d, addr_incr, params) ==
    IF ignored(d, params) THEN st
    ELSE LET r == AddRegs(st, d, find_reg_inst(page, d.name), AutoArgs(d), 0, params,
                          page.name)
         IN  [r EXCEPT !.addr = st.addr + Len(AutoArgs(d)) * addr_incr]

\* The body of the loop of reg_auto_inst for RegDefOrIncl::Def(d)
AutoDef(st, page, d, addr_incr, params) ==
    IF ignored(d, params) THEN st
    ELSE AddRegs(st, d, find_reg_inst(page, d.name), AutoArgs(d), addr_incr, params,
                 page.name)

\* rif.pages.iter().find(|x| x.name == path.page)
FindPage(pages, name) ==
    IF \E i \in DOMAIN pages : pages[i].name = name
    THEN [some |-> TRUE, v |-> pages[CHOOSE i \in DOMAIN pages : pages[i].name = name]]
    ELSE [some |-> FALSE, v |-> [name |-> "", registers |-> <<>>, instances |-> <<>>]]

\* reg_auto_inst(rifs, page, addr_incr) from the entry i of page.registers
\* on: the address of the call starts at 0 (given by the caller in st.addr),
\* an include is a call of reg_auto_inst on the included page, after which
\* the loop goes on with its own address
RECURSIVE reg_auto_inst(_, _, _, _, _, _)
reg_auto_inst(st, pages, page, i, addr_incr, params) ==
    IF i > Len(page.registers) \/ ~st.ok THEN st
    ELSE LET r == page.registers[i]
             inc == FindPage(pages, r.page)
             next == IF r.incl
                     THEN (IF inc.some
                           THEN [reg_auto_inst([st EXCEPT !.addr = 0], pages, inc.v, 1,
                                               addr_incr, params)
                                    EXCEPT !.addr = st.addr]
                           ELSE [st EXCEPT !.ok = FALSE])
                     ELSE AutoDef(st, page, r.def, addr_incr, params)
         IN  reg_auto_inst(next, pages, page, i + 1, addr_incr, params)

\* FieldImpl::new(field, reg_array, ..., partials): name, width, array,
\* reset, hw_kind, is_partial; st is "panic" when partials is None for a
\* partial field
FieldImpl_new(field, reg_array, partials) ==
    LET array == Max(reg_array, 1) * field.array
                 + (IF reg_array > 0 THEN field.part_idx ELSE 0)
    IN  IF field.partial >= 0
        THEN (IF partials.some
              THEN LET m == PartialFieldInfos_merge(partials.v, field.name,
                                                    field.reset.signed, 0)
                   IN  [st |-> "ok", name |-> field.name, width |-> m.width,
                        array |-> array, reset |-> m.resets, hw_kind |-> field.hw_kind,
                        is_partial |-> TRUE]
              ELSE [st |-> "panic", name |-> field.name, width |-> 0, array |-> array,
                    reset |-> <<>>, hw_kind |-> field.hw_kind, is_partial |-> TRUE])
        ELSE [st |-> "ok", name |-> field.name, width |-> field.pos.width,
              array |-> array, reset |-> field.resets, hw_kind |-> field.hw_kind,
              is_partial |-> FALSE]

\* RegImpl::new(reg, params, partials): name and fields
RegImpl_new(reg, partials) ==
    [name |-> reg.group,
     fields |-> [i \in DOMAIN reg.fields |->
                    FieldImpl_new(reg.fields[i], reg.array,
                                  PartialFieldDict_get(partials, reg.group))],
     regs_ctrl |-> <<reg.name>>,
     pkg |-> ""]

\* for kind in f.hw_kind.iter(): the kinds that are not there yet are pushed
RECURSIVE PushNewKinds(_, _)
PushNewKinds(hw_kind, kinds) ==
    IF kinds = <<>> THEN hw_kind
    ELSE PushNewKinds(IF \E i \in DOMAIN hw_kind : hw_kind[i] = Head(kinds) THEN hw_kind
                      ELSE Append(hw_kind, Head(kinds)),
                      Tail(kinds))

\* Mutant of MergeField: a slice is appended whatever its partial index
MergeField_mut(field_impl, f) ==
    IF f.part_idx > 0 /\ field_impl.array > 0
    THEN (IF f.partial >= 0
          THEN [err |-> "arrays of partial field is not supported", v |-> field_impl]
          ELSE [err |-> "",
                v |-> [field_impl EXCEPT !.array = @ + f.array, !.reset = @ \o f.resets]])
    ELSE IF f.partial >= 0
    THEN [err |-> "", v |-> [field_impl EXCEPT !.hw_kind = PushNewKinds(@, f.hw_kind)]]
    ELSE [err |-> "already defined", v |-> field_impl]

\* The body of merge_with for a field f whose name is the one of field_impl:
\* the new field_impl, or the error returned (the clock enables of the model
\* are all the default one)
MergeField(field_impl, f) ==
    IF f.part_idx > 0 /\ field_impl.array > 0
    THEN (IF f.partial >= 0
          THEN [err |-> "arrays of partial field is not supported", v |-> field_impl]
          ELSE IF field_impl.array # f.part_idx
          THEN [err |-> "Non contiguous partial field array", v |-> field_impl]
          ELSE [err |-> "",
                v |-> [field_impl EXCEPT !.array = @ + f.array, !.reset = @ \o f.resets]])
    ELSE IF f.partial >= 0
    THEN [err |-> "", v |-> [field_impl EXCEPT !.hw_kind = PushNewKinds(@, f.hw_kind)]]
    ELSE [err |-> "already defined", v |-> field_impl]

\* RegImpl::merge_with(reg, params, partials) from the field i of reg on:
\* err is the error returned, or "" for Ok(())
RECURSIVE merge_with(_, _, _, _)
merge_with(impl, reg, i, partials) ==
    IF i > Len(reg.fields)
    THEN [ok |-> TRUE, err |-> "", impl |-> [impl EXCEPT !.regs_ctrl = Append(@, reg.name)]]
    ELSE LET f == reg.fields[i]
             found == { j \in DOMAIN impl.fields : impl.fields[j].name = f.name }
         IN  IF found # {}
             THEN LET j == CHOOSE k \in found : \A l \in found : l <= k
                      m == MergeField(impl.fields[j], f)
                  IN  IF m.err # "" THEN [ok |-> FALSE, err |-> m.err, impl |-> impl]
                      ELSE merge_with([impl EXCEPT !.fields[j] = m.v], reg, i + 1, partials)
             ELSE merge_with(
                     [impl EXCEPT !.fields =
                         Append(@, FieldImpl_new(f, reg.array,
                                                 PartialFieldDict_get(partials, reg.group)))],
                     reg, i + 1, partials)

\* RegImplDict::add_def for a definition: regs is the dictionary, a sequence
\* of RegImpl with distinct names; after an error there is no dictionary
add_def(regs, reg, params, partials) ==
    IF ~regs.ok \/ ignored(reg, params) THEN regs
    ELSE IF \E i \in DOMAIN regs.v : regs.v[i].name = reg.group
    THEN LET i == CHOOSE j \in DOMAIN regs.v : regs.v[j].name = reg.group
             m == merge_with(regs.v[i], reg, 1, partials)
         IN  IF m.ok THEN [regs EXCEPT !.v[i] = m.impl]
             ELSE [ok |-> FALSE, v |-> <<>>, err |-> m.err]
    ELSE [regs EXCEPT !.v = Append(@, RegImpl_new(reg, partials))]

\* if let Some(reg_impl) = self.0.last_mut() { reg_impl.pkg = Some(rif.name) }
\* after the add_def of a register of an included page; pkg is "" when the
\* registers are those of the RIF itself
SetLastPkg(regs, pkg) ==
    IF pkg # "" /\ regs.ok /\ regs.v # <<>> THEN [regs EXCEPT !.v[Len(regs.v)].pkg = pkg]
    ELSE regs

\* RegImplDict::add_def over the entries of a page from the entry i on, an
\* include adding the definitions of the included page (each included RIF
\* has one page, named like the RIF)
RECURSIVE add_defs(_, _, _, _, _, _, _)
add_defs(regs, pages, page, i, params, partials, pkg) ==
    IF i > Len(page.registers) THEN regs
    ELSE LET r == page.registers[i]
             inc == FindPage(pages, r.page)
             next == IF r.incl
                     THEN (IF inc.some
                           THEN add_defs(regs, pages, inc.v, 1, params, partials, inc.v.name)
                           ELSE [ok |-> FALSE, v |-> <<>>, err |-> "Unable to find page"])
                     ELSE add_def(regs, r.def, params, partials)
         IN  add_defs(SetLastPkg(next, pkg), pages, page, i + 1, params, partials, pkg)

\* ---- the pages elaborated

MaxRegs == 3

\* The parameters of the RIF: p is 0, q is 1
PageParams == << [k |-> <<"p">>, v |-> 0], [k |-> <<"q">>, v |-> 1] >>

IntrInfo(enable, mask, pending) == [enable |-> enable, mask |-> mask, pending |-> pending]

\* The register definitions: plain, array, interrupt (one and two entries),
\* the two slices of a partial field, a definition whose optional parameter
\* is 0
RegCtl ==
    RegDef("ctl", "ctl", << Field("en", "LsbSize", 0, 1, Unsigned(1), 0 - 1),
                            Field("mode", "Size", 0, 2, Unsigned(2), 0 - 1) >>,
           0, <<>>, <<>>)

RegCh ==
    RegDef("ch", "ch", << Field("v", "LsbSize", 0, 2, Signed(0 - 1), 0 - 1) >>, 2, <<>>, <<>>)

IrqFields == << Field("a", "LsbSize", 0, 1, Unsigned(0), 0 - 1),
                Field("b", "LsbSize", 1, 1, Unsigned(1), 0 - 1) >>

RegIrqA ==
    RegDef("irqa", "irqa", IrqFields, 0,
           << IntrInfo(SomeReset(Unsigned(1)), NoReset, FALSE) >>, <<>>)

RegIrqB ==
    RegDef("irqb", "irqb", IrqFields, 0,
           << IntrInfo(NoReset, SomeReset(Unsigned(2)), TRUE),
              IntrInfo(SomeReset(Unsigned(3)), NoReset, FALSE) >>, <<>>)

RegLo ==
    RegDef("lo", "wide", << Field("w", "LsbSize", 0, 2, Unsigned(1), 0) >>, 0, <<>>, <<>>)

RegHi ==
    RegDef("hi", "wide", << Field("w", "LsbSize", 0, 2, Unsigned(2), 2),
                            Field("x", "LsbSize", 2, 1, Unsigned(1), 0 - 1) >>,
           0, <<>>, <<>>)

RegOpt ==
    RegDef("opt", "opt", << Field("o", "LsbSize", 0, 1, Unsigned(0), 0 - 1) >>, 0, <<>>,
           <<"p">>)

\* A definition whose field ends above bit 7
RegBig ==
    RegDef("big", "big", << Field("hi", "LsbSize", 6, 4, Unsigned(0), 0 - 1) >>, 0, <<>>,
           <<>>)

\* The page of the included RIF
LibPage ==
    [name |-> "lib",
     registers |-> << Def(RegDef("x", "x", << Field("f", "LsbSize", 0, 1, Unsigned(1), 0 - 1) >>,
                                 0, <<>>, <<>>)),
                      Def(RegDef("y", "y", << Field("g", "LsbSize", 1, 1, Unsigned(1), 0 - 1) >>,
                                 0, <<>>, <<>>)) >>,
     instances |-> <<>>]

\* The page of a second included RIF: a register whose optional parameter is
\* 0, and a register of the group g
OptLibPage ==
    [name |-> "lib2",
     registers |-> << Def(RegDef("io", "io", << Field("i", "LsbSize", 0, 1, Unsigned(0), 0 - 1) >>,
                                 0, <<>>, <<"p">>)),
                      Def(RegDef("gx", "g", << Field("u", "LsbSize", 4, 1, Unsigned(0), 0 - 1) >>,
                                 0, <<>>, <<>>)) >>,
     instances |-> <<>>]

RifPages == << LibPage, OptLibPage >>

PageEntries ==
    << Def(RegCtl), Def(RegCh), Def(RegIrqA), Def(RegIrqB), Def(RegLo), Def(RegHi),
       Def(RegOpt), Def(RegBig), Include("lib") >>

\* The instances of an auto page: the overrides of the registers
Override(n, optional, fields) == [idx |-> n, optional |-> optional, fields |-> fields]

RegInst(type_name, group_name, reg_override) ==
    [type_name |-> type_name, group_name |-> group_name, reg_override |-> reg_override]

OptP == parse_expr(<<"$", "p">>).tokens

OptQ == parse_expr(<<"$", "q">>).tokens

InstanceLists ==
    { <<>>,
      << RegInst("ctl", "", << Override(0 - 1, OptP, <<>>) >>) >>,
      << RegInst("ch", "", << Override(1, OptP, <<>>) >>),
         RegInst("ctl", "", << Override(0 - 1, OptQ,
                                        << [name |-> "mode", reset |-> SomeReset(Unsigned(1))] >>) >>) >>,
      << RegInst("irqa", "", << Override(0 - 1, <<>>,
                                         << [name |-> "a", reset |-> SomeReset(Unsigned(1))] >>) >>),
         RegInst("irqb", "", << Override(0 - 1, <<>>,
                                         << [name |-> "b", reset |-> SomeReset(Unsigned(0))] >>) >>) >>,
      << RegInst("lo", "ga", <<>>), RegInst("hi", "gb", <<>>) >> }

DataWidths == {8, 32}

\* The sequences of 1 to MaxRegs distinct entries
PageRegisters ==
    UNION { { [i \in 1..n |-> PageEntries[f[i]]] :
                f \in { g \in [1..n -> DOMAIN PageEntries] :
                          \A i, j \in 1..n : i # j => g[i] # g[j] } } :
            n \in 1..MaxRegs }

PageInit ==
    /\ CurIdle
    /\ MuxIdle
    /\ ExprIdle
    /\ ParIdle
    /\ IpIdle
    /\ LdIdle
    /\ MnIdle
    /\ EnIdle
    /\ MpIdle
    /\ PsIdle
    /\ FkIdle
    /\ PdIdle
    /\ PtIdle
    /\ FiIdle
    /\ HwIdle
    /\ \E w \in DataWidths, regs \in PageRegisters, insts \in InstanceLists :
          pgIn = [data_width |-> w,
                  page |-> [name |-> "top", registers |-> regs, instances |-> insts],
                  params |-> PageParams]
    /\ pgIdx = 0
    /\ pgSt = PageSt(<<>>, <<>>, <<>>, 0, TRUE)
    /\ pgImpl = [ok |-> TRUE, v |-> <<>>, err |-> ""]
    /\ pgPc = "page"

\* let addr_incr = rif.data_width >> 3
addr_incr == pgIn.data_width \div 8

\* One iteration of the loop of reg_auto_inst on a definition
PageAutoDef ==
    /\ pgPc = "page"
    /\ pgIdx < Len(pgIn.page.registers)
    /\ ~pgIn.page.registers[pgIdx + 1].incl
    /\ pgSt' = AutoDef(pgSt, pgIn.page, pgIn.page.registers[pgIdx + 1].def, addr_incr,
                       pgIn.params)
    /\ pgPc' = IF pgSt'.ok THEN pgPc ELSE "err"
    /\ pgIdx' = pgIdx + 1
    /\ UNCHANGED <<pgIn, pgImpl>>
    /\ UNCHANGED <<curVars, muxVars, exprVarsAll, parVars, ipVars, ldVars, mnVars, enVars, mpVars, psVars, fkVars, pdVars, ptVars, fiVars, hwVars>>

\* One iteration of the loop of reg_auto_inst on an include
PageAutoInclude ==
    /\ pgPc = "page"
    /\ pgIdx < Len(pgIn.page.registers)
    /\ pgIn.page.registers[pgIdx + 1].incl
    /\ LET inc == FindPage(RifPages, pgIn.page.registers[pgIdx + 1].page)
       IN  pgSt' = IF inc.some
                   THEN [reg_auto_inst([pgSt EXCEPT !.addr = 0], RifPages, inc.v, 1,
                                       addr_incr, pgIn.params)
                            EXCEPT !.addr = pgSt.addr]
                   ELSE [pgSt EXCEPT !.ok = FALSE]
    /\ pgPc' = IF pgSt'.ok THEN pgPc ELSE "err"
    /\ pgIdx' = pgIdx + 1
    /\ UNCHANGED <<pgIn, pgImpl>>
    /\ UNCHANGED <<curVars, muxVars, exprVarsAll, parVars, ipVars, ldVars, mnVars, enVars, mpVars, psVars, fkVars, pdVars, ptVars, fiVars, hwVars>>

\* Ok(p): the page is built
PageDone ==
    /\ pgPc = "page"
    /\ pgIdx = Len(pgIn.page.registers)
    /\ pgPc' = "impl"
    /\ UNCHANGED <<pgIn, pgIdx, pgSt, pgImpl>>
    /\ UNCHANGED <<curVars, muxVars, exprVarsAll, parVars, ipVars, ldVars, mnVars, enVars, mpVars, psVars, fkVars, pdVars, ptVars, fiVars, hwVars>>

\* RegImplDict::build(rif, &rifs_info)
RegImplBuild ==
    /\ pgPc = "impl"
    /\ pgImpl' = add_defs([ok |-> TRUE, v |-> <<>>, err |-> ""], RifPages, pgIn.page, 1, pgIn.params,
                          pgSt.partials, "")
    /\ pgPc' = IF \E i \in DOMAIN pgImpl'.v :
                    \E j \in DOMAIN pgImpl'.v[i].fields : pgImpl'.v[i].fields[j].st = "panic"
               THEN "panic"
               ELSE IF pgImpl'.ok THEN "done" ELSE "err"
    /\ UNCHANGED <<pgIn, pgIdx, pgSt>>
    /\ UNCHANGED <<curVars, muxVars, exprVarsAll, parVars, ipVars, ldVars, mnVars, enVars, mpVars, psVars, fkVars, pdVars, ptVars, fiVars, hwVars>>

PageNext == PageAutoDef \/ PageAutoInclude \/ PageDone \/ RegImplBuild

SpecPage == PageInit /\ [][PageNext]_vars

\* C4: in an auto-instantiated page, the addresses of the register instances
\* are strictly increasing in the order the instances are appended to the
\* page, whatever the definitions, the includes and the data width.
C4_AddressMonotonic ==
    \A i, j \in DOMAIN pgSt.regs : i < j => pgSt.regs[i].addr < pgSt.regs[j].addr

\* The pages whose definitions were expanded: the page itself, and the
\* included page when the page has an include
ExpandedPages ==
    {pgIn.page} \cup {LibPage : i \in {j \in DOMAIN pgIn.page.registers :
                                         pgIn.page.registers[j].incl}}

\* The number of address slots of a definition
SlotCount(d) ==
    IF d.interrupt # <<>>
    THEN Cardinality({<<e, k>> \in (DOMAIN d.interrupt) \X {"Base", "Enable", "Mask", "Pending"} :
                        \/ k = "Base"
                        \/ k = "Enable" /\ d.interrupt[e].enable.some
                        \/ k = "Mask" /\ d.interrupt[e].mask.some
                        \/ k = "Pending" /\ d.interrupt[e].pending})
    ELSE IF d.array > 1 THEN d.array ELSE 1

\* The number of slots taken by the definitions before the entry i of a
\* page, counting the definitions that satisfy Counted
RECURSIVE SumSeq(_)
SumSeq(q) == IF q = <<>> THEN 0 ELSE Head(q) + SumSeq(Tail(q))

SlotsBefore(page, i, Counted(_)) ==
    SumSeq([j \in 1..(i - 1) |->
               IF ~page.registers[j].incl /\ Counted(page.registers[j].def)
               THEN SlotCount(page.registers[j].def) ELSE 0])

\* The instance of the definition d of a page for the element n of an array
\* (or -1) is dropped: its override has an optional expression that is 0
Dropped(page, d, n) ==
    LET inst == find_reg_inst(page, d.name)
    IN  /\ inst.some
        /\ \E o \in Range(inst.v.reg_override) :
              o.idx = n /\ o.optional # <<>> /\ eval(o.optional, pgIn.params) = Val(0)

\* The instances made from the definition d of a page, in the order of the
\* page built
RECURSIVE InstsOf(_, _, _)
InstsOf(page, d, i) ==
    IF i > Len(pgSt.regs) THEN <<>>
    ELSE (IF pgSt.from[i] = page.name /\ pgSt.regs[i].reg_type = d.name
          THEN <<pgSt.regs[i]>> ELSE <<>>) \o InstsOf(page, d, i + 1)

KindRank(k) == CASE k = "Base" -> 0 [] k = "Enable" -> 1 [] k = "Mask" -> 2 [] k = "Pending" -> 3

Declared(d, e, k) ==
    \/ k = "Base"
    \/ k = "Enable" /\ d.interrupt[e].enable.some
    \/ k = "Mask" /\ d.interrupt[e].mask.some
    \/ k = "Pending" /\ d.interrupt[e].pending

\* The instances of the definition d of a page are those of its expansion
\* from the slot base on: Gone(n) says whether the instance of the element n
\* (or -1) is absent
Expansion(page, d, base, Gone(_)) ==
    LET S == InstsOf(page, d, 1)
        A(n) == (base + n) * addr_incr
    IN  IF d.interrupt # <<>>
        THEN /\ \A e \in DOMAIN d.interrupt, k \in {"Base", "Enable", "Mask", "Pending"} :
                   LET n == Cardinality({<<e2, k2>> \in (DOMAIN d.interrupt)
                                                \X {"Base", "Enable", "Mask", "Pending"} :
                                 /\ Declared(d, e2, k2)
                                 /\ (e2 < e \/ (e2 = e /\ KindRank(k2) < KindRank(k)))})
                       M == {i \in DOMAIN S : S[i].intr_idx = e - 1 /\ S[i].kind = k}
                   IN  IF Declared(d, e, k) /\ ~Gone(0 - 1)
                       THEN Cardinality(M) = 1 /\ \A i \in M : S[i].addr = A(n)
                       ELSE M = {}
             /\ \A i, j \in DOMAIN S : i < j => S[i].addr <= S[j].addr
        ELSE IF d.array > 1
        THEN /\ \A n \in 0..(d.array - 1) :
                   LET M == {i \in DOMAIN S : S[i].array.idx = n}
                   IN  IF Gone(n) THEN M = {}
                       ELSE Cardinality(M) = 1 /\ \A i \in M : S[i].addr = A(n)
             /\ \A i \in DOMAIN S : S[i].array.dim = d.array /\ S[i].array.idx < d.array
             /\ \A i, j \in DOMAIN S : i < j => S[i].array.idx < S[j].array.idx
        ELSE IF Gone(0 - 1) THEN S = <<>>
        ELSE Len(S) = 1 /\ S[1].addr = A(0)

NotIgnored(d) == ~ignored(d, pgIn.params)

AnyDef(d) == TRUE

\* C5 as stated: every register definition of an auto page is expanded into
\* consecutive slots data_width/8 apart starting at 0, one instance for a
\* plain definition, n for an array of size n > 1, and Base, Enable, Mask,
\* Pending as declared for each entry of an interrupt definition.
C5_Original ==
    pgPc \in {"impl", "done"} =>
        \A page \in ExpandedPages : \A i \in DOMAIN page.registers :
            ~page.registers[i].incl =>
                LET Never(n) == FALSE
                IN  Expansion(page, page.registers[i].def, SlotsBefore(page, i, AnyDef), Never)

\* C5 amended: every register definition of an auto page that is not ignored
\* (optional parameter bound to 0) is expanded into consecutive slots
\* data_width/8 apart starting at 0, the ignored definitions taking no slot
\* and having no instance; a slot holds the instance of a plain definition,
\* of an element of an array of size n > 1, or of Base, Enable, Mask, Pending
\* as declared for each entry of an interrupt definition, unless the override
\* of the instance has an optional expression that evaluates to 0: then the
\* slot is kept and holds no instance.
C5_AutoExpansion ==
    pgPc \in {"impl", "done"} =>
        \A page \in ExpandedPages : \A i \in DOMAIN page.registers :
            ~page.registers[i].incl =>
                LET d == page.registers[i].def
                    Gone(n) == Dropped(page, d, n)
                IN  IF ignored(d, pgIn.params) THEN InstsOf(page, d, 1) = <<>>
                    ELSE Expansion(page, d, SlotsBefore(page, i, NotIgnored), Gone)

\* Witness of C5: a page built with a nonzero address increment from an
\* array, an interrupt definition of two entries and an included page, in
\* which an instance was dropped by its override
C5_Witness ==
    /\ pgPc = "impl"
    /\ addr_incr > 0
    /\ \E i \in DOMAIN pgSt.regs : pgSt.regs[i].kind = "Pending"
    /\ \E i \in DOMAIN pgSt.regs : pgSt.regs[i].array.dim > 1
    /\ \E i \in DOMAIN pgSt.regs : pgSt.from[i] = "lib"
    /\ \E i \in DOMAIN pgIn.page.registers :
          /\ ~pgIn.page.registers[i].incl
          /\ pgIn.page.registers[i].def.array > 1
          /\ Dropped(pgIn.page, pgIn.page.registers[i].def, 1)

\* The bitwise or of (field reset << field lsb) over a set of fields, taken
\* in any order
RECURSIVE OrOfFields(_, _)
OrOfFields(fields, left) ==
    IF left = {} THEN 0
    ELSE LET i == CHOOSE j \in left : TRUE
         IN  BitOr(to_u128(fields[i].reset, fields[i].width) * 2 ^ fields[i].lsb,
                   OrOfFields(fields, left \ {i}))

\* C6: the reset word of every register instance (plain, array element,
\* interrupt-derived, with or without field reset overrides) is the bitwise
\* or over its fields of (field reset << field lsb).
C6_ResetWord ==
    \A i \in DOMAIN pgSt.regs :
        pgSt.regs[i].reset = OrOfFields(pgSt.regs[i].fields, DOMAIN pgSt.regs[i].fields)

\* The slices of the partial field name of the group type gt: the pairs
\* <<i, j>> of a register instance of the page and of one of its fields
Slices(gt, name) ==
    {s \in (DOMAIN pgSt.regs) \X (1..8) :
        /\ pgSt.regs[s[1]].group_type = gt
        /\ s[2] \in DOMAIN pgSt.regs[s[1]].fields
        /\ pgSt.regs[s[1]].fields[s[2]].name = name
        /\ pgSt.regs[s[1]].fields[s[2]].partial >= 0}

SliceOf(s) == pgSt.regs[s[1]].fields[s[2]]

\* The bitwise or of (slice reset << partial lsb) over a set of slices
RECURSIVE OrOfSlices(_)
OrOfSlices(left) ==
    IF left = {} THEN 0
    ELSE LET s == CHOOSE x \in left : TRUE
         IN  BitOr(to_u128(SliceOf(s).reset, SliceOf(s).width) * 2 ^ SliceOf(s).partial,
                   OrOfSlices(left \ {s}))

\* The occurrences of the group type gt: the group names of the register
\* instances that have a partial field, in the order of their first instance
RECURSIVE Occurrences(_, _, _)
Occurrences(gt, i, seen) ==
    IF i > Len(pgSt.regs) THEN seen
    ELSE LET r == pgSt.regs[i]
         IN  IF /\ r.group_type = gt
                /\ \E j \in DOMAIN r.fields : r.fields[j].partial >= 0
                /\ \A n \in DOMAIN seen : seen[n] # r.group_name
             THEN Occurrences(gt, i + 1, Append(seen, r.group_name))
             ELSE Occurrences(gt, i + 1, seen)

\* C7: the implementation of a partial field of a group has the width
\* max(partial lsb + slice width) over the slices of the field in the
\* register instances of the group, and one reset per occurrence of the
\* group, the bitwise or of (slice reset << partial lsb) over the slices of
\* the occurrence.
C7_PartialReconstruction ==
    pgPc = "done" =>
        \A g \in DOMAIN pgImpl.v : \A k \in DOMAIN pgImpl.v[g].fields :
            LET fi == pgImpl.v[g].fields[k]
                gt == pgImpl.v[g].name
                slices == Slices(gt, fi.name)
                occ == Occurrences(gt, 1, <<>>)
            IN  fi.is_partial =>
                  /\ slices # {}
                  /\ \A s \in slices : fi.width >= SliceOf(s).partial + SliceOf(s).width
                  /\ \E s \in slices : fi.width = SliceOf(s).partial + SliceOf(s).width
                  /\ Len(fi.reset) = Len(occ)
                  /\ \A n \in DOMAIN occ :
                        fi.reset[n].v =
                            OrOfSlices({s \in slices : pgSt.regs[s[1]].group_name = occ[n]})

\* Witness of C7: the two slices of the field w, at partial lsb 0 and 2 with
\* resets 1 and 2, were merged in one occurrence of the group
C7_Witness ==
    /\ pgPc = "done"
    /\ \E g \in DOMAIN pgImpl.v : \E k \in DOMAIN pgImpl.v[g].fields :
          /\ pgImpl.v[g].fields[k].is_partial
          /\ pgImpl.v[g].fields[k].width = 4
          /\ pgImpl.v[g].fields[k].reset = << Unsigned(9) >>
          /\ Cardinality(Slices(pgImpl.v[g].name, pgImpl.v[g].fields[k].name)) = 2

\* ---- the definitions merged by RegImplDict::build

\* Largest number of entries of a page whose definitions are merged
MaxDefs == 3

U0 == Unsigned(0)

U1 == Unsigned(1)

\* The slices [0..1], [2..3] and [4] of the array t of the group g
RegA0 ==
    RegDef("a0", "g", << FieldArray("t", 0, 1, <<U0, U1>>, 0 - 1, 2, 0, <<>>) >>, 0, <<>>, <<>>)

RegA2 ==
    RegDef("a2", "g", << FieldArray("t", 0, 1, <<U1, U1>>, 0 - 1, 2, 2, <<>>) >>, 0, <<>>, <<>>)

RegA4 ==
    RegDef("a4", "g", << FieldArray("t", 0, 1, <<U0>>, 0 - 1, 1, 4, <<>>) >>, 0, <<>>, <<>>)

\* A plain field t of the group g
RegD == RegDef("d", "g", << Field("t", "LsbSize", 0, 1, U0, 0 - 1) >>, 0, <<>>, <<>>)

\* A slice of t at the index 2 that is also a partial field
RegPA ==
    RegDef("pa", "g", << FieldArray("t", 0, 1, <<U0>>, 0, 1, 2, <<>>) >>, 0, <<>>, <<>>)

\* The partial field w of the group g in two parts, with hardware kinds, and
\* a third part that has a partial index
RegL ==
    RegDef("l", "g", << FieldArray("w", 0, 2, <<U1>>, 0, 0, 0, <<"Set">>) >>, 0, <<>>, <<>>)

RegH ==
    RegDef("h", "g", << FieldArray("w", 0, 2, <<U1>>, 2, 0, 0, <<"Set", "Clr">>) >>, 0, <<>>,
           <<>>)

RegPW ==
    RegDef("pw", "g", << FieldArray("w", 0, 1, <<U0>>, 4, 0, 1, <<"Tgl">>) >>, 0, <<>>, <<>>)

ImplEntries ==
    << Def(RegA0), Def(RegA2), Def(RegA4), Def(RegD), Def(RegPA), Def(RegL), Def(RegH),
       Def(RegPW), Def(RegCh), Include("lib"), Include("lib2") >>

\* A RIF whose page holds 1 to MaxDefs distinct entries
ImplInit ==
    /\ CurIdle
    /\ MuxIdle
    /\ ExprIdle
    /\ ParIdle
    /\ IpIdle
    /\ LdIdle
    /\ MnIdle
    /\ EnIdle
    /\ MpIdle
    /\ PsIdle
    /\ FkIdle
    /\ PdIdle
    /\ PtIdle
    /\ FiIdle
    /\ HwIdle
    /\ \E n \in 1..MaxDefs : \E f \in [1..n -> DOMAIN ImplEntries] :
          /\ \A i, j \in 1..n : i # j => f[i] # f[j]
          /\ pgIn = [data_width |-> 32,
                     page |-> [name |-> "top",
                               registers |-> [i \in 1..n |-> ImplEntries[f[i]]],
                               instances |-> <<>>],
                     params |-> PageParams]
    /\ pgIdx = 0
    /\ pgSt = PageSt(<<>>, <<>>, <<>>, 0, TRUE)
    /\ pgImpl = [ok |-> TRUE, v |-> <<>>, err |-> ""]
    /\ pgPc = "page"

SpecRegImpl == ImplInit /\ [][PageNext]_vars

\* The fields declared by the definitions of a page that are not ignored, in
\* the order RegImplDict::build meets them, each with the group and the array
\* size of its register
RECURSIVE DeclaredFields(_, _)
DeclaredFields(registers, params) ==
    IF registers = <<>> THEN <<>>
    ELSE LET r == Head(registers)
             d == r.def
         IN  (IF r.incl THEN DeclaredFields(FindPage(RifPages, r.page).v.registers, params)
              ELSE IF ignored(d, params) THEN <<>>
              ELSE [i \in DOMAIN d.fields |->
                       [g |-> d.group, f |-> d.fields[i], reg_array |-> d.array]])
             \o DeclaredFields(Tail(registers), params)

\* What becomes of a field whose name is already in its group, the array of
\* the group having the length len: "grow" for a slice appended to the
\* array, "kinds" for a partial field, else the error.  As first stated, a
\* field with a partial index is a slice, which has to start at len; as
\* settled, a slice is a field with a partial index met when the array is not
\* empty, and it must not be a partial field
Redeclared(original, f, len) ==
    IF original
    THEN (IF f.part_idx > 0
          THEN (IF f.part_idx = len THEN "grow" ELSE "Non contiguous partial field array")
          ELSE IF f.partial >= 0 THEN "kinds" ELSE "already defined")
    ELSE (IF f.part_idx > 0 /\ len > 0
          THEN (IF f.partial >= 0 THEN "arrays of partial field is not supported"
                ELSE IF f.part_idx = len THEN "grow"
                ELSE "Non contiguous partial field array")
          ELSE IF f.partial >= 0 THEN "kinds" ELSE "already defined")

\* The fields of the groups after the declarations decl[i..]: one entry per
\* group and field name, with the array length, the resets and the hardware
\* kinds, or the error of the first declaration that cannot be merged
RECURSIVE MergedFields(_, _, _, _)
MergedFields(original, decl, i, acc) ==
    IF i > Len(decl) THEN [ok |-> TRUE, v |-> acc, err |-> ""]
    ELSE LET d == decl[i]
             same == { k \in DOMAIN acc : acc[k].g = d.g /\ acc[k].name = d.f.name }
             k == CHOOSE x \in same : TRUE
             what == Redeclared(original, d.f, acc[k].array)
         IN  IF same = {}
             THEN MergedFields(original, decl, i + 1,
                     Append(acc, [g |-> d.g, name |-> d.f.name,
                                  array |-> Max(d.reg_array, 1) * d.f.array
                                            + (IF d.reg_array > 0 THEN d.f.part_idx ELSE 0),
                                  reset |-> d.f.resets,
                                  hw_kind |-> Range(d.f.hw_kind)]))
             ELSE IF what = "grow"
             THEN MergedFields(original, decl, i + 1,
                     [acc EXCEPT ![k].array = @ + d.f.array, ![k].reset = @ \o d.f.resets])
             ELSE IF what = "kinds"
             THEN MergedFields(original, decl, i + 1,
                     [acc EXCEPT ![k].hw_kind = @ \cup Range(d.f.hw_kind)])
             ELSE [ok |-> FALSE, v |-> <<>>, err |-> what]

\* RegImplDict::build has returned for a page that was elaborated
ImplBuilt == pgPc \in {"done", "err"} /\ pgSt.ok /\ pgIdx = Len(pgIn.page.registers)

\* The dictionary built holds one RegImpl per group and one FieldImpl per
\* field name of the group, which are those of merged
ImplIs(merged) ==
    /\ pgImpl.ok
    /\ \A i, j \in DOMAIN pgImpl.v : pgImpl.v[i].name = pgImpl.v[j].name => i = j
    /\ \A i \in DOMAIN pgImpl.v : \A a, b \in DOMAIN pgImpl.v[i].fields :
          pgImpl.v[i].fields[a].name = pgImpl.v[i].fields[b].name => a = b
    /\ UNION { { <<pgImpl.v[i].name, pgImpl.v[i].fields[a].name>> :
                    a \in DOMAIN pgImpl.v[i].fields } : i \in DOMAIN pgImpl.v }
          = { <<merged[k].g, merged[k].name>> : k \in DOMAIN merged }
    /\ \A k \in DOMAIN merged : \A i \in DOMAIN pgImpl.v : \A a \in DOMAIN pgImpl.v[i].fields :
          LET fi == pgImpl.v[i].fields[a]
          IN  (pgImpl.v[i].name = merged[k].g /\ fi.name = merged[k].name) =>
                  /\ fi.array = merged[k].array
                  /\ Range(fi.hw_kind) = merged[k].hw_kind
                  /\ ~fi.is_partial => fi.reset = merged[k].reset

IncludedRegs ==
    UNION { { [rif |-> r.page, def |-> FindPage(RifPages, r.page).v.registers[k].def] :
                 k \in DOMAIN FindPage(RifPages, r.page).v.registers } :
            r \in { e \in Range(pgIn.page.registers) : e.incl } }

\* The names of the registers the page declares itself
LocalNames == { e.def.name : e \in { r \in Range(pgIn.page.registers) : ~r.incl } }

\* The pkg of the RegImpl after RegImplDict::build: the group of every
\* included register that is not skipped has a RegImpl, with the pkg of the
\* RIF unless it was created from a register of the page, and a RegImpl
\* created from a register of the page has the pkg of RegImpl::new
PkgRule ==
    (ImplBuilt /\ pgPc = "done") =>
        /\ \A inc \in IncludedRegs : ~ignored(inc.def, pgIn.params) =>
              \E i \in DOMAIN pgImpl.v :
                 /\ pgImpl.v[i].name = inc.def.group
                 /\ pgImpl.v[i].regs_ctrl[1] \notin LocalNames => pgImpl.v[i].pkg = inc.rif
        /\ \A i \in DOMAIN pgImpl.v : pgImpl.v[i].regs_ctrl[1] \in LocalNames => pgImpl.v[i].pkg = ""

\* C24: after RegImplDict::build, the RegImpl of the group of every register
\* matched by an include has pkg set to the included RIF, and an include
\* never changes the pkg of a RegImpl built from a register the page declares
\* itself, also when the included register is skipped as optional or merged
\* into a group that exists.
C24_IncludePkg == PkgRule

\* The included registers are all appended: none is ignored and none has
\* the group of another register
IncludesAppend ==
    \A inc \in IncludedRegs :
        /\ ~ignored(inc.def, pgIn.params)
        /\ \A e \in Range(pgIn.page.registers) : ~e.incl => e.def.group # inc.def.group

\* When the included registers are all appended, the pkg of every RegImpl is
\* the one of C24
PkgOfAppended == IncludesAppend => PkgRule

\* C14: in a page that was elaborated without error, every field of every
\* register instance fits in the register: lsb + width <= data_width.
C14_FieldFits ==
    pgPc \in {"impl", "done"} =>
        \A i \in DOMAIN pgSt.regs : \A k \in DOMAIN pgSt.regs[i].fields :
            pgSt.regs[i].fields[k].lsb + pgSt.regs[i].fields[k].width <= pgIn.data_width

----------------------------------------------------------------------------
(* RifmuxInst::build (comp_inst.rs) *)

\* Largest number of items of a Rifmux
MaxItems == 4

\* Instance names, by position in the item list
ItemNames == <<"a", "b", "c", "d", "e", "f">>

\* Addressing of an item, as parsed by rif_inst: "@ v" is Absolute, "@+ v"
\* Relative, "@+= v" RelativeSet
ItemAddressing ==
    { [kind |-> "Absolute",    addr |-> 256],
      [kind |-> "Relative",    addr |-> 16],
      [kind |-> "RelativeSet", addr |-> 16],
      [kind |-> "Relative",    addr |-> 8] }

\* The group of the items declared from position k + 1 on (the items of a
\* group are declared in the block of the group, after the ungrouped ones)
ItemGroup(i, k) == IF i > k THEN "g" ELSE ""

\* Group declarations of a Rifmux
GroupDefs == { <<>>, << [name |-> "g", kind |-> "Absolute", addr |-> 64] >> }

MuxItemLists ==
    UNION { { [i \in 1..n |-> [name  |-> ItemNames[i],
                               kind  |-> a[i].kind,
                               addr  |-> a[i].addr,
                               group |-> ItemGroup(i, k)]] :
                a \in [1..n -> ItemAddressing], k \in 0..n } :
            n \in 1..MaxItems }

\* RifmuxGroupInst::from: the offsets of the groups, resolved with a cursor
RECURSIVE GroupInst_from(_, _)
GroupInst_from(groups, addr_inst) ==
    IF groups = <<>> THEN <<>>
    ELSE LET r == InstAddr_updt(addr_inst, Head(groups).addr, Head(groups).kind)
         IN  <<[name |-> Head(groups).name, addr |-> r.ret]>>
                 \o GroupInst_from(Tail(groups), r.self)

\* CompInst::full_addr
full_addr(comp, groups) ==
    IF comp.group # ""
    THEN LET found == {i \in DOMAIN groups : groups[i].name = comp.group}
             first == CHOOSE i \in found : \A j \in found : i <= j
         IN  comp.addr + (IF found = {} THEN 0 ELSE groups[first].addr)
    ELSE comp.addr

\* Mutant of SortedOrders: the key of the sort is the local address
RECURSIVE SortedOrders_mut(_, _, _)
SortedOrders_mut(v, left, groups) ==
    IF left = {} THEN { <<>> }
    ELSE LET least == {i \in left : \A j \in left : v[i].addr <= v[j].addr}
         IN  UNION { { <<v[i]>> \o rest : rest \in SortedOrders_mut(v, left \ {i}, groups) } :
                     i \in least }

\* The orders sort_unstable_by_key may leave a vector in: every permutation
\* of the elements in non-decreasing order of the key
RECURSIVE SortedOrders(_, _, _)
SortedOrders(v, left, groups) ==
    IF left = {} THEN { <<>> }
    ELSE LET least == {i \in left : \A j \in left :
                          full_addr(v[i], groups) <= full_addr(v[j], groups)}
         IN  UNION { { <<v[i]>> \o rest : rest \in SortedOrders(v, left \ {i}, groups) } :
                     i \in least }

\* Mutant of MuxItemAddr: the cursor is not used, the declared offset is the
\* address
MuxItemAddr_mut(inst_addr, item) ==
    [self |-> inst_addr, ret |-> item.addr]

\* The address of an item: inst_addr.updt(i.addr.value(&params), i.addr_kind)
MuxItemAddr(inst_addr, item) == InstAddr_updt(inst_addr, item.addr, item.kind)

MuxInit ==
    /\ PgIdle
    /\ CurIdle
    /\ ExprIdle
    /\ ParIdle
    /\ IpIdle
    /\ LdIdle
    /\ MnIdle
    /\ EnIdle
    /\ MpIdle
    /\ PsIdle
    /\ FkIdle
    /\ PdIdle
    /\ PtIdle
    /\ FiIdle
    /\ HwIdle
    /\ \E items \in MuxItemLists, groups \in GroupDefs :
          /\ muxDef = [items |-> items, groups |-> groups]
          /\ muxGroups = GroupInst_from(groups, InstAddr_new(0))
    /\ muxIdx = 0
    /\ muxAddr = InstAddr_new(0)
    /\ muxComps = <<>>
    /\ muxPc = "build"

\* One iteration of the loop over rifmux.items: the address of the item, the
\* push of its component, the sort of the components
MuxBuildItem ==
    /\ muxPc = "build"
    /\ muxIdx < Len(muxDef.items)
    /\ LET i == muxDef.items[muxIdx + 1]
           r == MuxItemAddr(muxAddr, i)
           pushed == Append(muxComps, [name |-> i.name, addr |-> r.ret, group |-> i.group])
       IN  /\ muxAddr' = r.self
           /\ muxComps' \in SortedOrders(pushed, DOMAIN pushed, muxGroups)
    /\ muxIdx' = muxIdx + 1
    /\ UNCHANGED <<muxDef, muxGroups, muxPc>>
    /\ UNCHANGED <<curVars, exprVarsAll, parVars, pgVars, ipVars, ldVars, mnVars, enVars, mpVars, psVars, fkVars, pdVars, ptVars, fiVars, hwVars>>

\* Ok(rm)
MuxBuildDone ==
    /\ muxPc = "build"
    /\ muxIdx = Len(muxDef.items)
    /\ muxPc' = "done"
    /\ UNCHANGED <<muxDef, muxIdx, muxAddr, muxComps, muxGroups>>
    /\ UNCHANGED <<curVars, exprVarsAll, parVars, pgVars, ipVars, ldVars, mnVars, enVars, mpVars, psVars, fkVars, pdVars, ptVars, fiVars, hwVars>>

MuxNext == MuxBuildItem \/ MuxBuildDone

SpecMux == MuxInit /\ [][MuxNext]_vars

\* The full address of the component named n of the Rifmux built
CompAddr(n) ==
    LET i == CHOOSE i \in DOMAIN muxComps : muxComps[i].name = n
    IN  full_addr(muxComps[i], muxGroups)

\* Scenario E: - a @ 0x100, - b @+ 0x10, - c @+= 0x10, - d @+ 0x8, no group
IsScenarioE ==
    /\ Len(muxDef.items) = 4
    /\ \A i \in 1..4 : muxDef.items[i].group = ""
    /\ muxDef.items[1].kind = "Absolute"    /\ muxDef.items[1].addr = 256
    /\ muxDef.items[2].kind = "Relative"    /\ muxDef.items[2].addr = 16
    /\ muxDef.items[3].kind = "RelativeSet" /\ muxDef.items[3].addr = 16
    /\ muxDef.items[4].kind = "Relative"    /\ muxDef.items[4].addr = 8

\* C2 as stated: the Rifmux of scenario E is built with the full addresses
\* a = 0x100, b = 0x110, c = 0x120, d = 0x128.
C2_Original ==
    (muxPc = "done" /\ IsScenarioE) =>
        /\ CompAddr("a") = 256
        /\ CompAddr("b") = 272
        /\ CompAddr("c") = 288
        /\ CompAddr("d") = 296

\* C2 amended: the Rifmux of scenario E is built with the full addresses
\* a = 0x100, b = 0x110, c = 0x110, d = 0x118 (the Relative item b does not
\* move the cursor, so c advances from the base 0x100 set by a).
C2_ScenarioE ==
    (muxPc = "done" /\ IsScenarioE) =>
        /\ CompAddr("a") = 256
        /\ CompAddr("b") = 272
        /\ CompAddr("c") = 272
        /\ CompAddr("d") = 280

\* Witness of C2: the build of scenario E has returned its four components
C2_Witness ==
    /\ muxPc = "done"
    /\ IsScenarioE
    /\ Len(muxComps) = 4

\* The offset of the group of a component: 0 without a group or when the
\* group is not declared
GroupOffset(comp) ==
    IF comp.group = "" \/ \A g \in DOMAIN muxGroups : muxGroups[g].name # comp.group THEN 0
    ELSE muxGroups[CHOOSE g \in DOMAIN muxGroups : muxGroups[g].name = comp.group].addr

\* C26: after RifmuxInst::build has returned, the components are in
\* non-decreasing order of full address, the local address plus the offset of
\* the group (0 without a group or with an unknown group), whatever the
\* declaration order and the addressing kinds.
C26_ComponentsSorted ==
    muxPc = "done" =>
        /\ Len(muxComps) = Len(muxDef.items)
        /\ \A i, j \in DOMAIN muxComps :
              i < j => muxComps[i].addr + GroupOffset(muxComps[i])
                          <= muxComps[j].addr + GroupOffset(muxComps[j])

\* Witness of C26: a Rifmux built whose components are not in declaration
\* order, one of them in a group with an offset and one in an unknown group
\* or in none, declared with more than one addressing kind
C26_Witness ==
    /\ muxPc = "done"
    /\ Len(muxComps) >= 3
    /\ muxComps[1].name # "a"
    /\ \E i \in DOMAIN muxComps : GroupOffset(muxComps[i]) > 0
    /\ \E i \in DOMAIN muxComps : GroupOffset(muxComps[i]) = 0
    /\ \E i, j \in DOMAIN muxDef.items : muxDef.items[i].kind # muxDef.items[j].kind

----------------------------------------------------------------------------
(* The parameters handed to an item of a Rifmux: the part of                *)
(* RifmuxInst::build that builds i_params (comp_inst.rs), over              *)
(* ParamValues::compile (parser_expr.rs)                                    *)

\* Largest number of parameter overrides of an item
MaxItemParams == 2

\* The name of the item, and the names its parameters are taken from
ItemName == <<"X">>

ItemParamNames == << <<"a">>, <<"b">>, <<"c">> >>

\* The override expressions of an item: a constant, an expression over
\* another parameter of the item, an expression over a parameter of the Rifmux
ItemParamExprs ==
    { parse_expr(src).tokens :
        src \in { <<"2">>, <<"$", "a", "+", "1">>, <<"$", "w">> } }

\* rifmux.parameters compiled by from_iter: the Rifmux declares w or nothing
MuxParams == { <<>>, << [k |-> <<"w">>, v |-> 4] >> }

\* The keys of top_params: overrides of the item, of another item, of a
\* parameter of the Rifmux, and a key without parameter name
TopKeys == << <<"X", ".", "a">>, <<"X", ".", "b">>, <<"Y", ".", "a">>, <<"w">>, <<"X">> >>

\* top_params: at most two bindings, in any order, each to 5
ItemTopBindings ==
    UNION { { [i \in 1..n |-> [k |-> TopKeys[f[i]], v |-> 5]] :
                f \in { g \in [1..n -> DOMAIN TopKeys] :
                          \A i, j \in 1..n : i # j => g[i] # g[j] } } :
            n \in 0..2 }

\* i.parameters: a HashMap from names to expressions
ItemParameters ==
    UNION { { { [k |-> ItemParamNames[j], e |-> e[j]] : j \in ns } :
                e \in [ns -> ItemParamExprs] } :
            ns \in { n \in SUBSET (1..MaxItemParams) : n \subseteq DOMAIN ItemParamNames } }

\* The orders in which iter() can visit the entries of a HashMap
Orders(map) ==
    { o \in [1..Cardinality(map) -> map] : \A i, j \in DOMAIN o : i # j => o[i] # o[j] }

\* k.split('.'): the segments of k between the '.' characters
RECURSIVE SplitDot(_, _)
SplitDot(k, seg) ==
    IF k = <<>> THEN <<seg>>
    ELSE IF Head(k) = "." THEN <<seg>> \o SplitDot(Tail(k), <<>>)
    ELSE SplitDot(Tail(k), Append(seg, Head(k)))

NoErr == [msg |-> "", name |-> <<>>]

\* The loop of build over top_params.items(): the bindings whose key starts
\* with the name of the item are inserted under the parameter name
RECURSIVE InheritTop(_, _, _)
InheritTop(top, name, i_params) ==
    IF top = <<>> THEN [ok |-> TRUE, v |-> i_params, err |-> NoErr]
    ELSE LET ks == SplitDot(Head(top).k, <<>>)
         IN  IF ks[1] = name
             THEN IF Len(ks) < 2
                  THEN [ok |-> FALSE, v |-> i_params,
                        err |-> [msg |-> "Malformed parameter overload", name |-> <<>>]]
                  ELSE InheritTop(Tail(top), name,
                                  ParamInsert(i_params, ks[2], Head(top).v))
             ELSE InheritTop(Tail(top), name, i_params)

\* ParamValues::compile(dict): dict is the sequence the iterator yields
RECURSIVE compile(_, _)
compile(params, dict) ==
    IF dict = <<>> THEN [ok |-> TRUE, v |-> params, err |-> NoErr]
    ELSE LET d == Head(dict)
         IN  IF CompileSkips(params, d.k) THEN compile(params, Tail(dict))
             ELSE LET v == eval(d.e, params)
                  IN  IF v.st = "ok"
                      THEN compile(ParamInsert(params, d.k, v.v), Tail(dict))
                      ELSE [ok |-> FALSE, v |-> params,
                            err |-> [msg |-> "Malformed parameter", name |-> d.k]]

ItemParamsInit ==
    /\ CurIdle
    /\ MuxIdle
    /\ ExprIdle
    /\ ParIdle
    /\ PgIdle
    /\ LdIdle
    /\ MnIdle
    /\ EnIdle
    /\ MpIdle
    /\ PsIdle
    /\ FkIdle
    /\ PdIdle
    /\ PtIdle
    /\ FiIdle
    /\ HwIdle
    /\ ipIn \in [top : ItemTopBindings, mux : MuxParams, name : {ItemName},
                 parameters : ItemParameters]
    /\ ipOrder \in Orders(ipIn.parameters)
    /\ ipVals = <<>>
    /\ ipIdx = 0
    /\ ipErr = NoErr
    /\ ipPc = "inherit"

\* let mut i_params = ParamValues::new(); for (k,v) in top_params.items() ...
ItemInherit ==
    /\ ipPc = "inherit"
    /\ LET r == InheritTop(ipIn.top, ipIn.name, <<>>)
       IN  /\ ipVals' = r.v
           /\ ipErr' = r.err
           /\ ipPc' = IF r.ok THEN "compile" ELSE "err"
    /\ UNCHANGED <<ipIn, ipOrder, ipIdx>>
    /\ UNCHANGED <<curVars, muxVars, exprVarsAll, parVars, pgVars, ldVars, mnVars, enVars, mpVars, psVars, fkVars, pdVars, ptVars, fiVars, hwVars>>

\* i_params.compile(i.parameters.iter())?
ItemCompile ==
    /\ ipPc = "compile"
    /\ LET r == compile(ipVals, ipOrder)
       IN  /\ ipVals' = r.v
           /\ ipErr' = r.err
           /\ ipPc' = IF r.ok THEN "done" ELSE "err"
    /\ ipIdx' = Len(ipOrder)
    /\ UNCHANGED <<ipIn, ipOrder>>
    /\ UNCHANGED <<curVars, muxVars, exprVarsAll, parVars, pgVars, ldVars, mnVars, enVars, mpVars, psVars, fkVars, pdVars, ptVars, fiVars, hwVars>>

ItemParamsNext == ItemInherit \/ ItemCompile

SpecItemParams == ItemParamsInit /\ [][ItemParamsNext]_vars

\* The binding of an item for a given iteration order of its parameters
ItemParams(in, order) ==
    LET h == InheritTop(in.top, in.name, <<>>)
    IN  IF h.ok THEN compile(h.v, order) ELSE h

\* What a run exposes: the bindings as a set (the order of the entries of
\* the OrderDict left aside), or the error
Outcome(r) == IF r.ok THEN [ok |-> TRUE, v |-> Range(r.v), err |-> NoErr]
              ELSE [ok |-> FALSE, v |-> {}, err |-> r.err]

\* C11: determinism.  The result of building the parameters of an item (the
\* binding, or the error) is the same for every order in which the HashMap
\* of its parameter overrides can be iterated.
C11_Determinism ==
    ipPc \in {"done", "err"} =>
        \A o \in Orders(ipIn.parameters) :
            Outcome(ItemParams(ipIn, o))
                = Outcome([ok |-> ipPc = "done", v |-> ipVals, err |-> ipErr])

\* A binding that inherits the bindings of an outer level: the entries of
\* outer whose name is not bound yet are added
RECURSIVE Inherit(_, _)
Inherit(params, outer) ==
    IF outer = <<>> THEN params
    ELSE Inherit(IF contains_key(params, Head(outer).k) THEN params
                 ELSE ParamInsert(params, Head(outer).k, Head(outer).v),
                 Tail(outer))

\* C20: parameter bindings only grow along the nesting.  When the binding of
\* item X is built it holds p = v for every top-level entry X.p = v, also
\* when X declares an override for p; the other overrides of X are bound; and
\* the override expressions of X are evaluated against a binding that
\* inherits the parameters of the Rifmux: when they all evaluate against such
\* a binding, the binding of X is built and gives the overrides these values
C20_InheritExtend ==
    LET h == InheritTop(ipIn.top, ipIn.name, <<>>)
        inherited == compile(Inherit(h.v, ipIn.mux), ipOrder)
    IN  /\ ipPc = "done" =>
              /\ \A i \in DOMAIN ipIn.top :
                    LET ks == SplitDot(ipIn.top[i].k, <<>>)
                    IN  (Len(ks) = 2 /\ ks[1] = ipIn.name) =>
                            /\ contains_key(ipVals, ks[2])
                            /\ ParamGet(ipVals, ks[2]) = ipIn.top[i].v
              /\ \A d \in ipIn.parameters : contains_key(ipVals, d.k)
        /\ (ipPc \in {"done", "err"} /\ h.ok /\ inherited.ok) =>
              /\ ipPc = "done"
              /\ \A d \in ipIn.parameters : ParamGet(ipVals, d.k) = ParamGet(inherited.v, d.k)

----------------------------------------------------------------------------
(* The loader: RifGenSrc::from_file (parser_file.rs)                        *)

\* Number of .rif files of the directory
MaxFiles == 3

\* The stems of the files of the directory; the first one is the file given
\* to from_file
FileStems == << <<"a">>, <<"r", "i", "f", "_", "b">>, <<"c">>, <<"d">> >>

\* The names a file can refer to (include, register group package, type of
\* a Rifmux item); the last one has no file
RefNames == { <<"a">>, <<"b", "_", "r", "i", "f">>, <<"c">>, <<"d">>, <<"e">> }

EndsWith(s, lit) == Len(s) >= Len(lit) /\ SubSeq(s, Len(s) - Len(lit) + 1, Len(s)) = lit

\* remove_rif(name): the name without its rif/rifmux prefix or suffix
remove_rif(name) ==
    IF StartsWith(name, <<"r", "i", "f", "_">>) THEN Drop(name, 4)
    ELSE IF EndsWith(name, <<"_", "r", "i", "f">>) THEN SubSeq(name, 1, Len(name) - 4)
    ELSE IF StartsWith(name, <<"r", "i", "f", "m", "u", "x", "_">>) THEN Drop(name, 7)
    ELSE IF EndsWith(name, <<"_", "r", "i", "f", "m", "u", "x">>)
         THEN SubSeq(name, 1, Len(name) - 7)
    ELSE name

\* flist.get(remove_rif(r)): the files of the directory a reference names
flist_get(dir, r) == { f \in DOMAIN dir : remove_rif(FileStems[f]) = remove_rif(r) }

\* The directories: every file refers to at most two names
Directories ==
    [1..MaxFiles -> { rs \in SUBSET RefNames : Cardinality(rs) <= 2 }]

LoaderInit ==
    /\ CurIdle
    /\ MuxIdle
    /\ ExprIdle
    /\ ParIdle
    /\ PgIdle
    /\ IpIdle
    /\ MnIdle
    /\ EnIdle
    /\ MpIdle
    /\ PsIdle
    /\ FkIdle
    /\ PdIdle
    /\ PtIdle
    /\ FiIdle
    /\ HwIdle
    /\ ldDir \in Directories
    /\ ldRefs = {}
    /\ ldSrc = {}
    /\ ldRound = 0
    /\ ldPc = "start"

\* let mut refs = src.parse_file(&filename)?; if !refs.is_empty() { ... }
LoadTop ==
    /\ ldPc = "start"
    /\ ldRefs' = ldDir[1]
    /\ ldSrc' = {1}
    /\ ldPc' = IF ldDir[1] = {} THEN "done" ELSE "resolve"
    /\ UNCHANGED <<ldDir, ldRound>>
    /\ UNCHANGED <<curVars, muxVars, exprVarsAll, parVars, pgVars, ipVars, mnVars, enVars, mpVars, psVars, fkVars, pdVars, ptVars, fiVars, hwVars>>

\* One iteration of while !ref_done: every pending reference that names a
\* file is parsed, and the references of these files become the pending ones
LoadRound ==
    /\ ldPc = "resolve"
    /\ LET found == UNION { flist_get(ldDir, r) : r \in ldRefs }
           refs_next == UNION { ldDir[f] : f \in found }
       IN  /\ ldSrc' = ldSrc \cup found
           /\ ldRefs' = refs_next
           /\ ldPc' = IF refs_next = {} THEN "done" ELSE "resolve"
    /\ ldRound' = 1 - ldRound
    /\ UNCHANGED ldDir
    /\ UNCHANGED <<curVars, muxVars, exprVarsAll, parVars, pgVars, ipVars, mnVars, enVars, mpVars, psVars, fkVars, pdVars, ptVars, fiVars, hwVars>>

LoaderNext == LoadTop \/ LoadRound

SpecLoader == LoaderInit /\ [][LoaderNext]_vars /\ WF_vars(LoaderNext)

\* C12: the loader terminates.  For every directory of parseable files,
\* from_file eventually reaches an empty set of pending references and
\* returns.
C12_LoaderTerminates == <>(ldPc = "done")

----------------------------------------------------------------------------
(* The command line: the loop of main over the input files (main.rs)        *)

\* Largest number of input files
MaxInputs == 4

\* What the processing of an input file gives: from_file fails, from_file
\* succeeds and Comp::compile fails, or both succeed
FileResults == {"parse_err", "compile_err", "ok"}

MainInit ==
    /\ CurIdle
    /\ MuxIdle
    /\ ExprIdle
    /\ ParIdle
    /\ PgIdle
    /\ IpIdle
    /\ LdIdle
    /\ EnIdle
    /\ MpIdle
    /\ PsIdle
    /\ FkIdle
    /\ PdIdle
    /\ PtIdle
    /\ FiIdle
    /\ HwIdle
    /\ mnFiles \in UNION { [1..n -> FileResults] : n \in 1..MaxInputs }
    /\ mnIdx = 0
    /\ mnFail = 0
    /\ mnOut = <<>>
    /\ mnExit = 0 - 1
    /\ mnPc = "loop"

\* One iteration of for f in &filelist, on the given result
MainFile(res, fail_incr, line) ==
    /\ mnPc = "loop"
    /\ mnIdx < Len(mnFiles)
    /\ mnFiles[mnIdx + 1] = res
    /\ mnIdx' = mnIdx + 1
    /\ mnFail' = mnFail + fail_incr
    /\ mnOut' = Append(mnOut, line)
    /\ UNCHANGED <<mnFiles, mnExit, mnPc>>
    /\ UNCHANGED <<curVars, muxVars, exprVarsAll, parVars, pgVars, ipVars, ldVars, enVars, mpVars, psVars, fkVars, pdVars, ptVars, fiVars, hwVars>>

\* Err(e) => {fail_cnt+=1; println!(" -> {}", e)}
MainParseErr == MainFile("parse_err", 1, "parse error")

\* Err(e) => {fail_cnt+=1; println!(" -> Compile failed: {}", e)}
MainCompileErr == MainFile("compile_err", 1, "Compile failed")

\* Ok(o) => { println!("   => Compile Ok"); the generators run }
MainCompileOk == MainFile("ok", 0, "Compile Ok")

\* The status main ends with: main returns () after the loop, whatever
\* fail_cnt is, and the runtime exits with 0
ExitStatus(fail_cnt) == 0

\* if fail_cnt > 0 { println!("Failed {}/{}", ...) } and the return of main
MainReturn ==
    /\ mnPc = "loop"
    /\ mnIdx = Len(mnFiles)
    /\ mnOut' = IF mnFail > 0 THEN Append(mnOut, "Failed") ELSE mnOut
    /\ mnExit' = ExitStatus(mnFail)
    /\ mnPc' = "exited"
    /\ UNCHANGED <<mnFiles, mnIdx, mnFail>>
    /\ UNCHANGED <<curVars, muxVars, exprVarsAll, parVars, pgVars, ipVars, ldVars, enVars, mpVars, psVars, fkVars, pdVars, ptVars, fiVars, hwVars>>

MainNext == MainParseErr \/ MainCompileErr \/ MainCompileOk \/ MainReturn

SpecMain == MainInit /\ [][MainNext]_vars

\* The number of failing files among the first n input files
RECURSIVE FailedAmong(_, _)
FailedAmong(files, n) ==
    IF n = 0 THEN 0
    ELSE FailedAmong(files, n - 1) + (IF files[n] = "ok" THEN 0 ELSE 1)

\* The batch goes on after a failure: every file processed so far has its
\* line, and fail_cnt counts the failures among them
BatchContinues ==
    /\ Len(mnOut) >= mnIdx
    /\ mnFail = FailedAmong(mnFiles, mnIdx)
    /\ mnPc = "exited" => mnIdx = Len(mnFiles)

\* C13: batch error handling.  A failure of an input file is recorded and
\* the next file is still processed; after the last file the process exits
\* with a nonzero status if at least one file failed, with zero otherwise.
C13_BatchExit ==
    /\ BatchContinues
    /\ mnPc = "exited" => (mnExit = 0 <=> mnFail = 0)

----------------------------------------------------------------------------
(* The enum definitions of a RIF instance: the import of the enums of the  *)
(* included RIFs in RifInst::new (comp_inst.rs)                             *)

\* Largest number of pages of a RIF
MaxPages == 2

\* Enum names: a type name, a documentation-only name made by EnumKind::new
\* ("doc:<reg>_<field>"), a name of an external package, and a type name
\* that is spelled like an imported one
EnumC == <<"c">>

EnumDoc == <<"d", "o", "c", ":", "r", "_", "f">>

EnumExt == <<"p", ":", ":", "e">>

EnumLikeImported == <<"l", "1", "_", "p", "k", "g", ":", ":", "c">>

\* rifs: the RIF definitions by name, [name, data_width, enum_defs]
EnumRifs ==
    << [name |-> <<"l", "1">>, data_width |-> 8,
        enum_defs |-> << EnumC, EnumDoc, EnumExt >>],
       [name |-> <<"l", "2", "_", "r", "i", "f">>, data_width |-> 32,
        enum_defs |-> << EnumC >>] >>

\* The RIF names an include can give: l1, l2 (found as l2_rif), zz (no RIF)
IncludeRifs == { <<"l", "1">>, <<"l", "2">>, <<"z", "z">> }

\* The includes of a page: at most two, in any order
PageIncludes == UNION { [1..n -> IncludeRifs] : n \in 0..2 }

\* rif.enum_defs: the parser keeps the names of a RIF distinct
OwnEnums == { <<>>, << EnumC >>, << EnumLikeImported >>, << EnumDoc, EnumExt >> }

\* get_rif(dict, key): the definition under key, key_rif, key_rif_mux,
\* rif_key or rif_mux_key, in this order
get_rif(dict, key) ==
    LET cands == << key, key \o <<"_", "r", "i", "f">>,
                    key \o <<"_", "r", "i", "f", "_", "m", "u", "x">>,
                    <<"r", "i", "f", "_">> \o key,
                    <<"r", "i", "f", "_", "m", "u", "x", "_">> \o key >>
        hits == { c \in DOMAIN cands : \E i \in DOMAIN dict : dict[i].name = cands[c] }
    IN  IF hits = {} THEN [some |-> FALSE, v |-> [name |-> <<>>, data_width |-> 0,
                                                  enum_defs |-> <<>>]]
        ELSE LET c == CHOOSE h \in hits : \A g \in hits : h <= g
             IN  [some |-> TRUE,
                  v |-> dict[CHOOSE i \in DOMAIN dict : dict[i].name = cands[c]]]

\* e.name.contains(':')
ContainsColon(name) == \E i \in DOMAIN name : name[i] = ":"

\* The name contains "::"
ContainsPkgSep(name) == \E i \in 1..(Len(name) - 1) : name[i] = ":" /\ name[i + 1] = ":"

\* Mutant of ImportedName: only a name holding "::" is imported unchanged
ImportedName_mut(inc_rif, name) ==
    IF ContainsPkgSep(name) THEN name
    ELSE inc_rif.name \o <<"_", "p", "k", "g", ":", ":">> \o name

\* The name under which the enum name of inc_rif is imported
ImportedName(inc_rif, name) ==
    IF ContainsColon(name) THEN name
    ELSE inc_rif.name \o <<"_", "p", "k", "g", ":", ":">> \o name

\* for e in &inc_rif.enum_defs: the imported definitions
ImportEnums(inc_rif) ==
    [i \in DOMAIN inc_rif.enum_defs |->
        [name |-> ImportedName(inc_rif, inc_rif.enum_defs[i]), from |-> inc_rif.name,
         orig |-> inc_rif.enum_defs[i]]]

\* The loop over the includes of a page
RECURSIVE ImportIncludes(_, _, _)
ImportIncludes(incs, data_width, enum_defs) ==
    IF incs = <<>> THEN [ok |-> TRUE, v |-> enum_defs]
    ELSE LET r == get_rif(EnumRifs, Head(incs))
         IN  IF ~r.some \/ r.v.data_width > data_width THEN [ok |-> FALSE, v |-> enum_defs]
             ELSE ImportIncludes(Tail(incs), data_width, enum_defs \o ImportEnums(r.v))

EnumInit ==
    /\ CurIdle
    /\ MuxIdle
    /\ ExprIdle
    /\ ParIdle
    /\ PgIdle
    /\ IpIdle
    /\ LdIdle
    /\ MnIdle
    /\ MpIdle
    /\ PsIdle
    /\ FkIdle
    /\ PdIdle
    /\ PtIdle
    /\ FiIdle
    /\ HwIdle
    /\ enRif \in [data_width : {8, 32}, enum_defs : OwnEnums,
                  pages : UNION { [1..n -> PageIncludes] : n \in 1..MaxPages }]
    /\ enIdx = 0
    /\ enDefs = <<>>
    /\ enPc = "new"

\* let mut enum_defs = rif.enum_defs.clone();
EnumClone ==
    /\ enPc = "new"
    /\ enDefs' = [i \in DOMAIN enRif.enum_defs |->
                    [name |-> enRif.enum_defs[i], from |-> <<>>, orig |-> enRif.enum_defs[i]]]
    /\ enPc' = "pages"
    /\ UNCHANGED <<enRif, enIdx>>
    /\ UNCHANGED <<curVars, muxVars, exprVarsAll, parVars, pgVars, ipVars, ldVars, mnVars, mpVars, psVars, fkVars, pdVars, ptVars, fiVars, hwVars>>

\* One iteration of for page in rif.pages.iter(): the enums of the included
\* RIFs are appended (the page instance itself is built elsewhere)
EnumImportPage ==
    /\ enPc = "pages"
    /\ enIdx < Len(enRif.pages)
    /\ LET r == ImportIncludes(enRif.pages[enIdx + 1], enRif.data_width, enDefs)
       IN  /\ enDefs' = r.v
           /\ enPc' = IF r.ok THEN "pages" ELSE "err"
    /\ enIdx' = enIdx + 1
    /\ UNCHANGED enRif
    /\ UNCHANGED <<curVars, muxVars, exprVarsAll, parVars, pgVars, ipVars, ldVars, mnVars, mpVars, psVars, fkVars, pdVars, ptVars, fiVars, hwVars>>

\* Ok(RifInst { enum_defs, ... })
EnumDone ==
    /\ enPc = "pages"
    /\ enIdx = Len(enRif.pages)
    /\ enPc' = "done"
    /\ UNCHANGED <<enRif, enIdx, enDefs>>
    /\ UNCHANGED <<curVars, muxVars, exprVarsAll, parVars, pgVars, ipVars, ldVars, mnVars, mpVars, psVars, fkVars, pdVars, ptVars, fiVars, hwVars>>

EnumNext == EnumClone \/ EnumImportPage \/ EnumDone

SpecEnum == EnumInit /\ [][EnumNext]_vars

\* C15: enum uniqueness.  No two entries of the enum_defs of a RIF instance
\* have the same fully qualified name, whatever the pages include.
C15_EnumUnique ==
    enPc = "done" =>
        \A i, j \in DOMAIN enDefs : i # j => enDefs[i].name # enDefs[j].name

\* The entries of enum_defs that were imported through an include
Imported == { i \in DOMAIN enDefs : enDefs[i].from # <<>> }

Prefixed(i) == enDefs[i].from \o <<"_", "p", "k", "g", ":", ":">> \o enDefs[i].orig

\* C16 as stated: an imported enum is unchanged when its original name holds
\* "::", and gets the package prefix of the included RIF otherwise.
C16_Original ==
    \A i \in Imported :
        enDefs[i].name = IF ContainsPkgSep(enDefs[i].orig) THEN enDefs[i].orig
                         ELSE Prefixed(i)

\* C16: enum prefix rule.  An imported enum is unchanged when its original
\* name holds a ':' (a name of an external package, or a documentation-only
\* name "doc:<reg>_<field>"), and is named <included RIF name>_pkg::<name>
\* otherwise.
C16_PrefixRule ==
    \A i \in Imported :
        enDefs[i].name = IF ContainsColon(enDefs[i].orig) THEN enDefs[i].orig
                         ELSE Prefixed(i)

\* Witness of C16: a RIF instance whose enum_defs hold an imported enum with
\* the prefix of a RIF found under its _rif name, an imported
\* documentation-only enum and an imported enum of an external package
C16_Witness ==
    /\ enPc = "done"
    /\ \E i \in Imported : enDefs[i].name = <<"l", "2", "_", "r", "i", "f", "_", "p", "k", "g",
                                              ":", ":", "c">>
    /\ \E i \in Imported : enDefs[i].name = EnumDoc
    /\ \E i \in Imported : enDefs[i].name = EnumExt

----------------------------------------------------------------------------
(* Elaboration of a page with manual instances: the else branch of         *)
(* RifPageInst::new, RifPage::find_regdef and RifPageInst::add_reg          *)

\* Largest number of instances of a page
MaxInsts == 3

\* A register instance of a page (RegInst)
ManInst(inst_name, type_name, group_name, array, reg_override) ==
    [inst_name |-> inst_name, type_name |-> type_name, group_name |-> group_name,
     addr_kind |-> "RelativeSet", addr |-> 0, array |-> array,
     reg_override |-> reg_override]

\* The type names that start with the name of a definition, with what
\* follows: &name[d.name.len()..]
TypeNameSuffixes ==
    { [name |-> "irqa_en", prefix |-> "irqa", suffix |-> "_en"],
      [name |-> "irqa_mask", prefix |-> "irqa", suffix |-> "_mask"] }

\* The match of find_regdef on one definition: the definition itself, or a
\* derived register of one of its interrupt entries (the entries of the
\* model have no name)
find_regdef_in(d, name) ==
    LET none == [some |-> FALSE, def |-> d, kind |-> "None", idx |-> 0]
        sfx == { t.suffix : t \in { u \in TypeNameSuffixes :
                                      u.name = name /\ u.prefix = d.name } }
        KindOf(i) == IF d.interrupt[i].enable.some /\ "_en" \in sfx THEN "Enable"
                     ELSE IF d.interrupt[i].mask.some /\ "_mask" \in sfx THEN "Mask"
                     ELSE IF d.interrupt[i].pending /\ "_pending" \in sfx THEN "Pending"
                     ELSE "None"
        hits == { i \in DOMAIN d.interrupt : KindOf(i) # "None" }
    IN  IF d.name = name
        THEN [some |-> TRUE, def |-> d,
              kind |-> IF d.interrupt = <<>> THEN "None" ELSE "Base", idx |-> 0]
        ELSE IF hits = {} THEN none
        ELSE LET i == CHOOSE h \in hits : \A g \in hits : h <= g
             IN  [some |-> TRUE, def |-> d, kind |-> KindOf(i), idx |-> i - 1]

\* RifPage::find_regdef(name, rifs) on a page made of definitions
RECURSIVE find_regdef(_, _)
find_regdef(registers, name) ==
    IF registers = <<>>
    THEN [some |-> FALSE, def |-> RegDef("", "", <<>>, 0, <<>>, <<>>), kind |-> "None",
          idx |-> 0]
    ELSE LET r == find_regdef_in(Head(registers).def, name)
         IN  IF ~Head(registers).incl /\ r.some THEN r
             ELSE find_regdef(Tail(registers), name)

\* self.reg_lut.entry(&inst.reg_type).push(self.regs.len())
LutPush(lut, k, v) ==
    IF \E i \in DOMAIN lut : lut[i].k = k
    THEN [lut EXCEPT ![CHOOSE i \in DOMAIN lut : lut[i].k = k].v = Append(@, v)]
    ELSE Append(lut, [k |-> k, v |-> <<v>>])

\* Mutant of add_reg: the look-up table gets an entry for a dropped instance
add_reg_mut(p, r, tag) ==
    LET q == [p EXCEPT !.lut = LutPush(p.lut, r.reg.reg_type, Len(p.regs)),
                       !.partials = r.partials]
    IN  IF r.st = "some"
        THEN [q EXCEPT !.regs = Append(@, r.reg), !.from = Append(@, tag)]
        ELSE q

\* p.add_reg(RifRegInst::new(...)?): r is the result of RifRegInst::new, tag
\* names the instance and the array element the register is made for
add_reg(p, r, tag) ==
    IF r.st = "some"
    THEN [p EXCEPT !.lut = LutPush(p.lut, r.reg.reg_type, Len(p.regs)),
                   !.regs = Append(@, r.reg), !.from = Append(@, tag),
                   !.partials = r.partials]
    ELSE p

\* for i in 0..nb { p.add_reg(RifRegInst::new(def, inst_addr.incr(), Some(reg),
\* RegInstArgs::Arr(ArrayIdx::Inst(i, nb)), rifs)?) }, from the element i on;
\* ManualElement is the body of the loop once inst_addr.incr() gave c and
\* RifRegInst::new gave r
RECURSIVE ManualArray(_, _, _, _, _, _, _)
RECURSIVE ManualElement(_, _, _, _, _, _, _, _)
ManualElement(p, c, r, def, reg, i, nb, params) ==
    IF r.st = "err" THEN [p |-> [p EXCEPT !.ok = FALSE], cursor |-> c.self]
    ELSE ManualArray(add_reg(p, r, [inst |-> reg.inst_name, elt |-> i]), c.self,
                     def, reg, i + 1, nb, params)

ManualArray(p, cursor, def, reg, i, nb, params) ==
    IF i >= nb \/ ~p.ok THEN [p |-> p, cursor |-> cursor]
    ELSE ManualElement(p, InstAddr_incr(cursor),
                       RifRegInst_new(def, InstAddr_incr(cursor).ret,
                                      [some |-> TRUE, v |-> reg], ArrInst(i, nb), params,
                                      p.partials),
                       def, reg, i, nb, params)

\* The override of the register as a whole: reg.reg_override.get(&None)
OverrideNone(reg) ==
    IF \E i \in DOMAIN reg.reg_override : reg.reg_override[i].idx = 0 - 1
    THEN [some |-> TRUE,
          v |-> reg.reg_override[CHOOSE i \in DOMAIN reg.reg_override :
                                    reg.reg_override[i].idx = 0 - 1]]
    ELSE [some |-> FALSE, v |-> Override(0 - 1, <<>>, <<>>)]

\* p.add_reg(RifRegInst::new(def, inst_addr.updt(...), Some(reg),
\* RegInstArgs::Intr(intr_info), rifs)?): r is the result of RifRegInst::new
\* and u the one of inst_addr.updt
ManualSingle(p, cursor, reg, u, r) ==
    IF r.st = "err" THEN [p |-> [p EXCEPT !.ok = FALSE], cursor |-> cursor]
    ELSE [p |-> add_reg(p, r, [inst |-> reg.inst_name, elt |-> 0]), cursor |-> u.self]

\* The body of for reg in page.instances.iter(), with opt the value of the
\* optional predicate of the whole register, fd the result of find_regdef, u
\* the one of inst_addr.updt and nb the value of reg.array
ManualInstOf(p, cursor, reg, params, opt, fd, u, nb) ==
    LET fail == [p |-> [p EXCEPT !.ok = FALSE], cursor |-> cursor]
    IN  IF opt.st # "ok" THEN fail
        ELSE IF opt.v = 0 THEN [p |-> p, cursor |-> cursor]
        ELSE IF ~fd.some THEN fail
        ELSE IF nb.st # "ok" THEN fail
        ELSE IF nb.v > 1
        THEN ManualArray(p, InstAddr_decr(u.self).self, fd.def, reg, 0, nb.v, params)
        ELSE ManualSingle(p, cursor, reg, u,
                          RifRegInst_new(fd.def, u.ret, [some |-> TRUE, v |-> reg],
                                         Intr(fd.kind, fd.idx), params, p.partials))

\* The optional predicate of the override ovr of the register as a whole
\* (an instance without one is kept)
OptionalOf(ovr, params) ==
    IF ovr.some /\ ovr.v.optional # <<>> THEN eval(ovr.v.optional, params) ELSE Val(1)

\* The body of for reg in page.instances.iter()
ManualInst(p, cursor, page, reg, params) ==
    ManualInstOf(p, cursor, reg, params,
                 OptionalOf(OverrideNone(reg), params),
                 find_regdef(page.registers, reg.type_name),
                 InstAddr_updt(cursor, reg.addr, reg.addr_kind),
                 eval(reg.array, params))

\* ---- the pages elaborated

\* The definitions of the page
ManualRegisters == << Def(RegCtl), Def(RegCh), Def(RegIrqA), Def(RegLo), Def(RegHi) >>

Two == parse_expr(<<"2">>).tokens

\* The instances, before they are given an address: a plain register, a
\* register dropped as a whole (with a field override), an array whose
\* element 1 is dropped, an array of slices of a partial field whose element
\* 0 is dropped, another slice of the same group, a derived interrupt
\* register
ManualBases ==
    << ManInst("c0", "ctl", "", <<>>, <<>>),
       ManInst("c1", "ctl", "",  <<>>,
               << Override(0 - 1, OptP,
                           << [name |-> "mode", reset |-> SomeReset(Unsigned(1))] >>) >>),
       ManInst("chs", "ch", "", Two, << Override(1, OptP, <<>>) >>),
       ManInst("los", "lo", "ga", Two, << Override(0, OptP, <<>>) >>),
       ManInst("h0", "hi", "ga", <<>>, <<>>),
       ManInst("ie", "irqa_en", "", <<>>, <<>>) >>

\* The addresses of an instance: the default, a relative and an absolute one
ManualAddrs == << <<"RelativeSet", 0>>, <<"Relative", 8>>, <<"Absolute", 0>> >>

\* The list of the distinct instances f, each with one of the addresses
ManualInstances(f, a) ==
    [i \in DOMAIN f |-> [ManualBases[f[i]] EXCEPT !.addr_kind = ManualAddrs[a[i]][1],
                                                  !.addr = ManualAddrs[a[i]][2]]]

ManualEmpty == [regs |-> <<>>, from |-> <<>>, lut |-> <<>>, partials |-> <<>>, ok |-> TRUE]

ManualInit ==
    /\ CurIdle
    /\ MuxIdle
    /\ ExprIdle
    /\ ParIdle
    /\ PgIdle
    /\ IpIdle
    /\ LdIdle
    /\ MnIdle
    /\ EnIdle
    /\ PsIdle
    /\ FkIdle
    /\ PdIdle
    /\ PtIdle
    /\ FiIdle
    /\ HwIdle
    /\ \E n \in 1..MaxInsts :
          \E f \in [1..n -> DOMAIN ManualBases], a \in [1..n -> DOMAIN ManualAddrs] :
             /\ \A i, j \in 1..n : i # j => f[i] # f[j]
             /\ mpIn = [data_width |-> 32,
                        page |-> [name |-> "top", registers |-> ManualRegisters,
                                  instances |-> ManualInstances(f, a)],
                        params |-> PageParams]
    /\ mpIdx = 0
    /\ mpAddr = InstAddr_new(4)
    /\ mpSt = ManualEmpty
    /\ mpPc = "insts"

\* One iteration of for reg in page.instances.iter()
ManualStep ==
    /\ mpPc = "insts"
    /\ mpIdx < Len(mpIn.page.instances)
    /\ \E r \in { ManualInst(mpSt, mpAddr, mpIn.page, mpIn.page.instances[mpIdx + 1],
                            mpIn.params) } :
          /\ mpSt' = r.p
          /\ mpAddr' = r.cursor
          /\ mpPc' = IF r.p.ok THEN "insts" ELSE "err"
    /\ mpIdx' = mpIdx + 1
    /\ UNCHANGED mpIn
    /\ UNCHANGED <<curVars, muxVars, exprVarsAll, parVars, pgVars, ipVars, ldVars, mnVars, enVars, psVars, fkVars, pdVars, ptVars, fiVars, hwVars>>

\* Ok(p)
ManualDone ==
    /\ mpPc = "insts"
    /\ mpIdx = Len(mpIn.page.instances)
    /\ mpPc' = "done"
    /\ UNCHANGED <<mpIn, mpIdx, mpAddr, mpSt>>
    /\ UNCHANGED <<curVars, muxVars, exprVarsAll, parVars, pgVars, ipVars, ldVars, mnVars, enVars, psVars, fkVars, pdVars, ptVars, fiVars, hwVars>>

ManualNext == ManualStep \/ ManualDone

SpecManual == ManualInit /\ [][ManualNext]_vars

\* RifPageInst::new on the instances insts, from the instance i on
RECURSIVE ManualFold(_, _, _, _, _, _)
ManualFold(p, cursor, page, insts, i, params) ==
    IF i > Len(insts) \/ ~p.ok THEN [p |-> p, cursor |-> cursor]
    ELSE LET r == ManualInst(p, cursor, page, insts[i], params)
         IN  ManualFold(r.p, r.cursor, page, insts, i + 1, params)

ManualPage(insts) ==
    ManualFold(ManualEmpty, InstAddr_new(mpIn.data_width \div 8), mpIn.page, insts, 1,
               mpIn.params)

\* The optional predicate of the override n of an instance evaluates to zero
OptionalIsZero(reg, n) ==
    \E i \in DOMAIN reg.reg_override :
        /\ reg.reg_override[i].idx = n
        /\ reg.reg_override[i].optional # <<>>
        /\ eval(reg.reg_override[i].optional, mpIn.params) = Val(0)

\* The instance is dropped as a whole, the element i of the instance is
\* dropped
InstDropped(reg) == OptionalIsZero(reg, 0 - 1)

ElementDropped(reg, i) ==
    /\ eval(reg.array, mpIn.params).st = "ok"
    /\ eval(reg.array, mpIn.params).v > 1
    /\ i >= 0
    /\ OptionalIsZero(reg, i)

\* The instances without those dropped as a whole, and the instances with
\* no optional predicate on their elements
RECURSIVE WithoutDropped(_)
WithoutDropped(insts) ==
    IF insts = <<>> THEN <<>>
    ELSE (IF InstDropped(Head(insts)) THEN <<>> ELSE <<Head(insts)>>)
         \o WithoutDropped(Tail(insts))

AllElements(insts) ==
    [i \in DOMAIN insts |->
        [insts[i] EXCEPT !.reg_override =
            [j \in DOMAIN @ |-> IF @[j].idx >= 0 THEN [@[j] EXCEPT !.optional = <<>>]
                                ELSE @[j]]]]

\* The instance of a name
InstOf(name) ==
    mpIn.page.instances[CHOOSE i \in DOMAIN mpIn.page.instances :
                            mpIn.page.instances[i].inst_name = name]

\* The look-up table and the partial-field dictionary made by the registers
\* of a page alone
RECURSIVE LutOf(_, _)
LutOf(regs, n) ==
    IF n = 0 THEN <<>> ELSE LutPush(LutOf(regs, n - 1), regs[n].reg_type, n - 1)

RECURSIVE PartialsOf(_, _)
PartialsOf(regs, n) ==
    IF n = 0 THEN <<>>
    ELSE PushPartials(regs[n].fields, PartialsOf(regs, n - 1), regs[n].group_type,
                      regs[n].group_name, 0).dict

\* What a register is, but for the index of its occurrence among the
\* partial fields of its group
RegCore(r) ==
    [reg_type |-> r.reg_type, group_name |-> r.group_name, kind |-> r.kind, addr |-> r.addr,
     reset |-> r.reset, fields |-> r.fields, array |-> r.array]

\* The registers of st made for an element that is kept
RECURSIVE KeptRegs(_, _)
KeptRegs(st, n) ==
    IF n = 0 THEN <<>>
    ELSE KeptRegs(st, n - 1)
         \o (IF ElementDropped(InstOf(st.from[n].inst), st.from[n].elt) THEN <<>>
             ELSE << RegCore(st.regs[n]) >>)

C18_AddressOrder ==
    mpPc = "done" =>
        \A i, j \in DOMAIN mpSt.regs : i < j => mpSt.regs[i].addr <= mpSt.regs[j].addr

\* The step is the iteration of the loop for an array instance that is not
\* dropped as a whole, of one of the addressing kinds
ArrayStep(kinds) ==
    /\ mpPc = "insts"
    /\ mpPc' = "insts"
    /\ mpIdx' = mpIdx + 1
    /\ mpIdx < Len(mpIn.page.instances)
    /\ mpIn.page.instances[mpIdx + 1].addr_kind \in kinds
    /\ ~InstDropped(mpIn.page.instances[mpIdx + 1])
    /\ eval(mpIn.page.instances[mpIdx + 1].array, mpIn.params).v > 1

\* The registers added by the step are the elements of the array that are
\* not dropped, the element i at A + i * incr, A the address the cursor
\* yields for the instance, and the base of the cursor is left at the
\* address of the last element
ArrayAt ==
    LET reg == mpIn.page.instances[mpIdx + 1]
        A == InstAddr_updt(mpAddr, reg.addr, reg.addr_kind).ret
        n == eval(reg.array, mpIn.params).v
        added == (Len(mpSt.regs) + 1)..Len(mpSt'.regs)
    IN  /\ \A k \in added : /\ mpSt'.from[k].inst = reg.inst_name
                             /\ mpSt'.regs[k].addr = A + mpSt'.from[k].elt * mpAddr.incr
        /\ \A i \in 0..(n - 1) :
              ~ElementDropped(reg, i) => \E k \in added : mpSt'.from[k].elt = i
        /\ mpAddr'.base = A + (n - 1) * mpAddr.incr

\* C28: in manual mode an array instance of size n > 1 for which the cursor
\* yields the address A, with any addressing kind, is expanded into the
\* instances at A, A + incr, ..., A + (n - 1) * incr, and the base of the
\* cursor after the expansion is the address of the last element.
C28_ArrayAddresses == [][ArrayStep(AddressKind) => ArrayAt]_vars

\* The same for the arrays at an Absolute or a RelativeSet address
ArrayAtSetAddress == [][ArrayStep({"Absolute", "RelativeSet"}) => ArrayAt]_vars

----------------------------------------------------------------------------
(* The line parser: the context stack of RifGenSrc::parse_file and the      *)
(* dictionaries of RifGenSrc (parser_file.rs)                               *)

\* Largest number of lines of a file
MaxLines == 3

\* Largest number of files parsed by one from_file
MaxSrcFiles == 2

\* Largest indentation of a line
MaxIndent == 2

\* The lines of the model, after their indentation:
\*   rif_a "rif: a", mux_m "rifmux: m", item "- p:", inst "- x = a @ 0",
\*   desc "description:", prop "addrWidth: 8", map "map:",
\*   group "group: g @ 0"
LineKinds == {"rif_a", "mux_m", "item", "inst", "desc", "prop", "map", "group"}

SrcNames == {"a", "m"}

\* Rif::new(name) and Rifmux::new(name), with the place of the declaration;
\* a description is the number of its lines
NoEntry == [some |-> FALSE, decl |-> <<0, 0>>, addr_width |-> 0, pages |-> <<>>,
            items |-> <<>>, groups |-> <<>>, desc |-> 0]

Rif_new(decl) == [NoEntry EXCEPT !.some = TRUE, !.decl = decl, !.addr_width = 16]

Rifmux_new(decl) == [NoEntry EXCEPT !.some = TRUE, !.decl = decl, !.addr_width = 16]

\* decl_top: the context and the name of a top-level header
decl_top(k) ==
    IF k = "rif_a" THEN [ok |-> TRUE, c |-> "Rif", name |-> "a"]
    ELSE IF k = "mux_m" THEN [ok |-> TRUE, c |-> "Rifmux", name |-> "m"]
    ELSE [ok |-> FALSE, c |-> "", name |-> ""]

\* rif_properties_or_item: "- x = a @ 0" is the item x followed by a text
rif_properties_or_item(k) ==
    IF k = "desc" THEN "Description"
    ELSE IF k = "prop" THEN "AddrWidth"
    ELSE IF k \in {"item", "inst"} THEN "Item"
    ELSE "Err"

page_properties(k) ==
    IF k = "desc" THEN "Description"
    ELSE IF k = "prop" THEN "AddrWidth"
    ELSE "Err"

rifmux_properties(k) ==
    IF k = "desc" THEN "Description"
    ELSE IF k = "prop" THEN "AddrWidth"
    ELSE IF k = "map" THEN "RifmuxMap"
    ELSE "Err"

\* rifmux_map, then rif_inst on what follows the dash: "p:" is no instance
rifmux_map(k) ==
    IF k = "group" THEN "RifmuxGroup"
    ELSE IF k = "inst" THEN "Item"
    ELSE "Err"

rif_inst_properties(k) == IF k = "desc" THEN "Description" ELSE "Err"

\* while ilvl < context_stack.last().1 { context_stack.pop() }: the stack and
\* last_group after the loop
RECURSIVE PopFrames(_, _, _)
PopFrames(stack, last_group, ilvl) ==
    IF ilvl < stack[Len(stack)].col
    THEN PopFrames(SubSeq(stack, 1, Len(stack) - 1),
                   IF stack[Len(stack)].c = "RifmuxGroup" THEN "" ELSE last_group,
                   ilvl)
    ELSE [stack |-> stack, last_group |-> last_group]

Frame(c, col) == [c |-> c, col |-> col]

\* The source being built: the fields of RifGenSrc a line can change
Src(top, rifs, mux, last_obj) == [top |-> top, rifs |-> rifs, mux |-> mux, last_obj |-> last_obj]

\* What the parsing of a line gives: Err, or the source, the group and the
\* frame pushed (c is "none" when the line opens no block)
LineErr(src, group) == [ok |-> FALSE, src |-> src, last_group |-> group, push |-> Frame("none", 0)]

LineOk(src, group, push) == [ok |-> TRUE, src |-> src, last_group |-> group, push |-> push]

\* Context::Top => match decl_top(&mut l)?
ParseTop(src, group, l, decl) ==
    IF ~decl_top(l.k).ok THEN LineErr(src, group)
    ELSE LineOk([src EXCEPT
                    !.top = IF @.k = "None"
                            THEN [k |-> decl_top(l.k).c, name |-> decl_top(l.k).name]
                            ELSE @,
                    !.last_obj = decl_top(l.k).name,
                    !.rifs = IF decl_top(l.k).c = "Rif"
                             THEN [@ EXCEPT ![decl_top(l.k).name] = Rif_new(decl)]
                             ELSE @,
                    !.mux = IF decl_top(l.k).c = "Rifmux"
                            THEN [@ EXCEPT ![decl_top(l.k).name] = Rifmux_new(decl)]
                            ELSE @],
                group, Frame(decl_top(l.k).c, l.ilvl))

\* Context::Rif => match rif_properties_or_item(&mut l)?
ParseRif(src, group, l, info) ==
    IF info = "Description" THEN LineOk(src, group, Frame("Description", l.ilvl + 1))
    ELSE IF info = "AddrWidth"
    THEN LineOk([src EXCEPT !.rifs[src.last_obj].addr_width = 8], group, Frame("none", 0))
    ELSE IF info = "Item"
    THEN LineOk([src EXCEPT !.rifs[src.last_obj].pages =
                    Append(@, [name |-> IF l.k = "item" THEN "p" ELSE "x",
                               addr_width |-> 0,
                               desc |-> IF l.k = "item" THEN 0 ELSE 1])],
                group, Frame("Page", l.ilvl + 1))
    ELSE LineErr(src, group)

\* Context::Page => match page_properties(&mut l)?
ParsePage(src, group, l, info) ==
    IF info = "Description" THEN LineOk(src, group, Frame("Description", l.ilvl + 1))
    ELSE IF info = "AddrWidth"
    THEN LineOk([src EXCEPT !.rifs[src.last_obj].pages[Len(src.rifs[src.last_obj].pages)]
                                .addr_width = 8],
                group, Frame("none", 0))
    ELSE LineErr(src, group)

\* Context::Rifmux => match rifmux_properties(&mut l)?
ParseRifmux(src, group, l, info) ==
    IF info = "Description" THEN LineOk(src, group, Frame("Description", l.ilvl + 1))
    ELSE IF info = "AddrWidth"
    THEN LineOk([src EXCEPT !.mux[src.last_obj].addr_width = 8], group, Frame("none", 0))
    ELSE IF info = "RifmuxMap" THEN LineOk(src, group, Frame("RifmuxMap", l.ilvl + 1))
    ELSE LineErr(src, group)

\* Context::RifmuxMap | Context::RifmuxGroup => match rifmux_map(&mut l)?
ParseMap(src, group, l, info) ==
    IF info = "Item"
    THEN LineOk([src EXCEPT !.mux[src.last_obj].items =
                    Append(@, [name |-> "x", group |-> group, desc |-> 0])],
                group, Frame("RifInst", l.ilvl + 1))
    ELSE IF info = "RifmuxGroup"
    THEN LineOk([src EXCEPT !.mux[src.last_obj].groups = Append(@, "g")],
                "g", Frame("RifmuxGroup", l.ilvl + 1))
    ELSE LineErr(src, group)

\* Context::RifInst => match rif_inst_properties(&mut l)?
ParseRifInst(src, group, l, info) ==
    IF info = "Description" THEN LineOk(src, group, Frame("Description", l.ilvl + 1))
    ELSE LineErr(src, group)

\* Context::Description: the text goes to the object of the frame below
ParseDescription(src, group, parent) ==
    LineOk(IF parent = "Rifmux" THEN [src EXCEPT !.mux[src.last_obj].desc = @ + 1]
           ELSE IF parent = "Rif" THEN [src EXCEPT !.rifs[src.last_obj].desc = @ + 1]
           ELSE IF parent = "Page"
           THEN [src EXCEPT !.rifs[src.last_obj].pages[Len(src.rifs[src.last_obj].pages)]
                                .desc = @ + 1]
           ELSE [src EXCEPT !.mux[src.last_obj].items[Len(src.mux[src.last_obj].items)]
                                .desc = @ + 1],
           group, Frame("none", 0))

\* match cntxt.0 { ... } on the line l, stack being the context stack after
\* the frames were popped
ParseMatch(stack, src, group, l, decl) ==
    IF stack[Len(stack)].c = "Top" THEN ParseTop(src, group, l, decl)
    ELSE IF stack[Len(stack)].c = "Rif"
    THEN ParseRif(src, group, l, rif_properties_or_item(l.k))
    ELSE IF stack[Len(stack)].c = "Page" THEN ParsePage(src, group, l, page_properties(l.k))
    ELSE IF stack[Len(stack)].c = "Rifmux"
    THEN ParseRifmux(src, group, l, rifmux_properties(l.k))
    ELSE IF stack[Len(stack)].c \in {"RifmuxMap", "RifmuxGroup"}
    THEN ParseMap(src, group, l, rifmux_map(l.k))
    ELSE IF stack[Len(stack)].c = "RifInst"
    THEN ParseRifInst(src, group, l, rif_inst_properties(l.k))
    ELSE ParseDescription(src, group, stack[Len(stack) - 1].c)

\* ---- the files parsed

Lines == [ilvl : 0..MaxIndent, k : LineKinds]

ParseInit ==
    /\ CurIdle
    /\ MuxIdle
    /\ ExprIdle
    /\ ParIdle
    /\ PgIdle
    /\ IpIdle
    /\ LdIdle
    /\ MnIdle
    /\ EnIdle
    /\ MpIdle
    /\ FkIdle
    /\ PdIdle
    /\ PtIdle
    /\ FiIdle
    /\ HwIdle
    /\ psStack = << Frame("Top", 0) >>
    /\ psTop = [k |-> "None", name |-> ""]
    /\ psRifs = [n \in SrcNames |-> NoEntry]
    /\ psMux = [n \in SrcNames |-> NoEntry]
    /\ psLastObj = ""
    /\ psLastGroup = ""
    /\ psFile = 1
    /\ psLine = 0
    /\ psLast = NoLine
    /\ psPrev = NoLine
    /\ psPc = "lines"

\* One iteration of while let Some(Ok(l)) = lines.next() on a line that is
\* neither empty nor a comment
ParseLine ==
    /\ psPc = "lines"
    /\ psLine < MaxLines
    /\ \E l \in Lines :
         \E popped \in { PopFrames(psStack, psLastGroup, l.ilvl) } :
           \E r \in { ParseMatch(popped.stack, Src(psTop, psRifs, psMux, psLastObj),
                                 popped.last_group, l, <<psFile, psLine + 1>>) } :
              /\ psStack' = IF r.ok /\ r.push.c # "none" THEN Append(popped.stack, r.push)
                            ELSE popped.stack
              /\ psTop' = r.src.top
              /\ psRifs' = r.src.rifs
              /\ psMux' = r.src.mux
              /\ psLastObj' = r.src.last_obj
              /\ psLastGroup' = r.last_group
              /\ psLast' = [ilvl |-> l.ilvl, k |-> l.k,
                            c |-> popped.stack[Len(popped.stack)].c,
                            opened |-> r.push.c]
              /\ psPc' = IF r.ok THEN "lines" ELSE "err"
    /\ psPrev' = psLast
    /\ psLine' = psLine + 1
    /\ UNCHANGED psFile
    /\ UNCHANGED <<curVars, muxVars, exprVarsAll, parVars, pgVars, ipVars, ldVars, mnVars, enVars, mpVars, fkVars, pdVars, ptVars, fiVars, hwVars>>

\* Ok(refs): the end of the file
ParseEof ==
    /\ psPc = "lines"
    /\ psPc' = "eof"
    /\ UNCHANGED <<psStack, psTop, psRifs, psMux, psLastObj, psLastGroup, psFile, psLine, psLast, psPrev>>
    /\ UNCHANGED <<curVars, muxVars, exprVarsAll, parVars, pgVars, ipVars, ldVars, mnVars, enVars, mpVars, fkVars, pdVars, ptVars, fiVars, hwVars>>

\* src.parse_file(rif_file) of from_file on another file: a new context
\* stack, the same RifGenSrc
ParseOpen ==
    /\ psPc = "eof"
    /\ psFile < MaxSrcFiles
    /\ psStack' = << Frame("Top", 0) >>
    /\ psFile' = psFile + 1
    /\ psLine' = 0
    /\ psLast' = NoLine
    /\ psPrev' = NoLine
    /\ psPc' = "lines"
    /\ UNCHANGED <<psTop, psRifs, psMux, psLastObj, psLastGroup>>
    /\ UNCHANGED <<curVars, muxVars, exprVarsAll, parVars, pgVars, ipVars, ldVars, mnVars, enVars, mpVars, fkVars, pdVars, ptVars, fiVars, hwVars>>

\* Ok(src) of from_file
ParseDone ==
    /\ psPc = "eof"
    /\ psPc' = "done"
    /\ UNCHANGED <<psStack, psTop, psRifs, psMux, psLastObj, psLastGroup, psFile, psLine, psLast, psPrev>>
    /\ UNCHANGED <<curVars, muxVars, exprVarsAll, parVars, pgVars, ipVars, ldVars, mnVars, enVars, mpVars, fkVars, pdVars, ptVars, fiVars, hwVars>>

ParseNext == ParseLine \/ ParseEof \/ ParseOpen \/ ParseDone

SpecParse == ParseInit /\ [][ParseNext]_vars

\* pages (or items) only grows
IsPrefix(a, b) == Len(a) <= Len(b) /\ SubSeq(b, 1, Len(a)) = a

\* An entry of a dictionary is neither replaced nor reset by a step
EntryKept(e, f) ==
    e.some => /\ f.some
              /\ f.decl = e.decl
              /\ IsPrefix(e.pages, f.pages)
              /\ IsPrefix(e.items, f.items)
              /\ f.desc >= e.desc

\* C21: first definition wins while loading.  Once a RIF or a Rifmux name has
\* an entry in the source dictionary, a later declaration of that name (in
\* another file or in a file parsed again) neither replaces nor resets the
\* entry, and the designated top stays the first declaration parsed.
C21_FirstDefinitionWins ==
    [][/\ \A n \in SrcNames : EntryKept(psRifs[n], psRifs'[n])
       /\ \A n \in SrcNames : EntryKept(psMux[n], psMux'[n])
       /\ psTop.k # "None" => psTop' = psTop]_vars

\* The part of C21 that is about the designated top
TopKept == [][psTop.k # "None" => psTop' = psTop]_vars

\* The frames below the one a line opened
Below(stack, opened) == IF opened = "none" THEN stack ELSE SubSeq(stack, 1, Len(stack) - 1)

\* The last line parsed follows the rule of the blocks: the frame it opened
\* is at its column + 1, no frame left below is deeper than the line, and
\* after an opener a line at the column of the opener is parsed in the
\* context of the opener, a deeper line in the context opened
BlockRule(openers) ==
    psLast.k # "none" =>
        /\ (psPc # "err" /\ psLast.opened \in openers)
              => psStack[Len(psStack)] = Frame(psLast.opened, psLast.ilvl + 1)
        /\ \A i \in DOMAIN Below(psStack, IF psPc = "err" THEN "none" ELSE psLast.opened) :
              psStack[i].c \in openers \cup {"Top"} => psStack[i].col <= psLast.ilvl
        /\ (psPrev.opened \in openers /\ psLast.ilvl = psPrev.ilvl) => psLast.c = psPrev.c
        /\ (psPrev.opened \in openers /\ psLast.ilvl > psPrev.ilvl)
              => psLast.c = psPrev.opened

Openers == {"Rif", "Rifmux", "Page", "Description", "RifmuxMap", "RifmuxGroup", "RifInst"}

\* C22: every line that starts a block, the top-level headers rif: and
\* rifmux: included, pushes its frame at the column of the line + 1, and the
\* frames that are not compatible with the indentation of a line are popped
\* before the line is parsed: a line at the column of the opener is a
\* sibling of the opener, a deeper line is inside the block.
C22_BlockColumns == BlockRule(Openers)

\* The rule of the blocks for the openers other than the top-level headers
InnerBlockRule == BlockRule(Openers \ {"Rif", "Rifmux"})

\* ---------------------------------------------------------------------
\* The kinds of a field: Field::new, Register::add_field and the attribute
\* lines of the Field context (hwset, pulse, counter, interrupt, ...)
\* ---------------------------------------------------------------------

MaxAttrs == 3

Triggers == {"High", "Rising"}

Clears == {"Read", "Write0", "Write1", "Hw"}

\* The software kinds field_sw_kind reads in a declaration, "none": no kind
DeclKinds == {"none", "ReadOnly", "ReadWrite", "ReadClr", "W1Clr", "W0Clr", "W1Set",
              "WriteOnly", "W1Pulse", "W1Tgl"}

HwAttrs == {"Set", "Clear", "Toggle", "WriteEn", "WriteEnL", "Counter"}

SwAttrs == {"W1Pulse", "W1Tgl", "Password"}

HwKind(k, trig) == [k |-> k, trig |-> trig]

has_write_mod(kind) == kind.k \in {"Set", "Toggle", "Clear", "WriteEn", "WriteEnL"}

Field_new(kind, reset_empty) ==
    [hw  |-> <<>>,
     sw  |-> IF kind # "none" THEN kind
             ELSE IF reset_empty THEN "ReadOnly" ELSE "ReadWrite",
     acc |-> IF kind # "none"
             THEN (IF kind \in {"ReadOnly", "ReadClr", "W1Clr", "W0Clr", "W1Set"} THEN "WO"
                   ELSE IF kind = "Password" THEN "NA" ELSE "RO")
             ELSE IF reset_empty THEN "WO" ELSE "RO",
     err |-> FALSE]

set_hw_kind(f, kind) ==
    IF f.hw # <<>> /\ ~(has_write_mod(kind) /\ has_write_mod(f.hw[Len(f.hw)]))
    THEN [f EXCEPT !.err = TRUE]
    ELSE [f EXCEPT !.hw = Append(@, kind)]

set_sw_kind(f, kind) ==
    IF kind = "W1Pulse"
    THEN IF f.hw # <<>> THEN [f EXCEPT !.acc = "RO", !.err = TRUE]
         ELSE [f EXCEPT !.acc = "RO", !.sw = kind]
    ELSE [f EXCEPT !.sw = kind]

\* trig, clr: "-" for None
set_intr(f, trig, clr) ==
    LET hw1 == IF f.hw = <<>>
               THEN <<HwKind("Interrupt", IF trig = "-" THEN "High" ELSE trig)>>
               ELSE IF trig # "-" THEN [f.hw EXCEPT ![1] = HwKind("Interrupt", trig)]
               ELSE f.hw
    IN  [f EXCEPT !.hw = IF clr = "Hw" THEN Append(hw1, HwKind("Clear", "-")) ELSE hw1,
                  !.sw = CASE clr = "Read"   -> "ReadClr"
                           [] clr = "Write0" -> "W0Clr"
                           [] clr = "Write1" -> "W1Clr"
                           [] OTHER          -> @]

\* The Item line of the Register context: field_decl, then hw_acc = WO and
\* the kinds of the interrupt when the register is an interrupt register
\* (intr: [trig, clr], trig "-" when the register is not one)
add_field(f, intr) ==
    IF intr.trig = "-" THEN f ELSE set_intr([f EXCEPT !.acc = "WO"], intr.trig, intr.clr)

FieldOf == [hw |-> fkHw, sw |-> fkSw, acc |-> fkAcc, err |-> FALSE]

FieldSet(f, attr) ==
    /\ fkHw' = f.hw
    /\ fkSw' = f.sw
    /\ fkAcc' = f.acc
    /\ fkLast' = [attr EXCEPT !.hw0 = fkHw]
    /\ fkN' = fkN + 1
    /\ fkPc' = IF f.err THEN "err" ELSE "field"

FieldInit ==
    /\ CurIdle
    /\ MuxIdle
    /\ ExprIdle
    /\ ParIdle
    /\ PgIdle
    /\ IpIdle
    /\ LdIdle
    /\ MnIdle
    /\ EnIdle
    /\ MpIdle
    /\ PsIdle
    /\ PdIdle
    /\ PtIdle
    /\ FiIdle
    /\ HwIdle
    /\ fkLast = NoAttr
    /\ fkN = 0
    /\ fkPc = "field"
    /\ \E kind \in DeclKinds, reset_empty \in BOOLEAN,
          intr \in [trig : Triggers \cup {"-"}, clr : Clears] :
          \E f \in { add_field(Field_new(kind, reset_empty), intr) } :
              /\ fkHw = f.hw
              /\ fkSw = f.sw
              /\ fkAcc = f.acc

\* hwset, hwclr, hwtgl, we, wel, counter
FieldHw ==
    /\ fkPc = "field"
    /\ fkN < MaxAttrs
    /\ \E k \in HwAttrs : FieldSet(set_hw_kind(FieldOf, HwKind(k, "-")), [NoAttr EXCEPT !.a = k])
    /\ UNCHANGED <<curVars, muxVars, exprVarsAll, parVars, pgVars, ipVars, ldVars, mnVars, enVars, mpVars, psVars, pdVars, ptVars, fiVars, hwVars>>

\* pulse, toggle, password
FieldSw ==
    /\ fkPc = "field"
    /\ fkN < MaxAttrs
    /\ \E k \in SwAttrs : FieldSet(set_sw_kind(FieldOf, k), [NoAttr EXCEPT !.a = k])
    /\ UNCHANGED <<curVars, muxVars, exprVarsAll, parVars, pgVars, ipVars, ldVars, mnVars, enVars, mpVars, psVars, pdVars, ptVars, fiVars, hwVars>>

\* interrupt [trigger] [clear]
FieldIntr ==
    /\ fkPc = "field"
    /\ fkN < MaxAttrs
    /\ \E trig \in Triggers \cup {"-"}, clr \in Clears \cup {"-"} :
          FieldSet(set_intr(FieldOf, trig, clr),
                   [NoAttr EXCEPT !.a = "Interrupt", !.trig = trig, !.clr = clr])
    /\ UNCHANGED <<curVars, muxVars, exprVarsAll, parVars, pgVars, ipVars, ldVars, mnVars, enVars, mpVars, psVars, pdVars, ptVars, fiVars, hwVars>>

\* The next line leaves the Field context: the field parsed successfully
FieldEnd ==
    /\ fkPc = "field"
    /\ fkPc' = "done"
    /\ UNCHANGED <<fkHw, fkSw, fkAcc, fkLast, fkN>>
    /\ UNCHANGED <<curVars, muxVars, exprVarsAll, parVars, pgVars, ipVars, ldVars, mnVars, enVars, mpVars, psVars, pdVars, ptVars, fiVars, hwVars>>

FieldNext == FieldHw \/ FieldSw \/ FieldIntr \/ FieldEnd

SpecField == FieldInit /\ [][FieldNext]_vars

HasKind(hw, k) == \E i \in DOMAIN hw : hw[i].k = k

\* An incompatible combination of kinds: a pulse with a hardware kind, a
\* counter with another hardware kind, an interrupt with a hardware kind
\* other than the hardware clear of the interrupt
Incompatible(hw, sw) ==
    \/ sw = "W1Pulse" /\ hw # <<>>
    \/ HasKind(hw, "Counter") /\ Len(hw) > 1
    \/ HasKind(hw, "Interrupt") /\ \E i \in DOMAIN hw : hw[i].k \notin {"Interrupt", "Clear"}

\* C23: whatever the order of the attribute lines, a field that parsed
\* without a FieldKind error holds no incompatible combination of kinds
\* (pulse with a hardware kind, counter or interrupt with another hardware
\* kind, a second exclusive kind).
C23_NoIncompatibleKinds == fkPc \in {"field", "done"} => ~Incompatible(fkHw, fkSw)

\* set_hw_kind by itself: a hardware kind is added after another one only
\* when both are write modifiers
HwKindRule ==
    (fkPc = "field" /\ fkLast.a \in HwAttrs /\ fkLast.hw0 # <<>>)
        => /\ fkHw = Append(fkLast.hw0, HwKind(fkLast.a, "-"))
           /\ has_write_mod(fkHw[Len(fkHw)])
           /\ has_write_mod(fkHw[Len(fkHw) - 1])

\* A pulse attribute after a hardware kind is rejected
PulseAfterHwRejected ==
    (fkLast.a = "W1Pulse" /\ fkLast.hw0 # <<>>) => fkPc = "err"

\* ---------------------------------------------------------------------
\* PartialFieldDict::push by itself: any sequence of pushes
\* ---------------------------------------------------------------------

MaxPushes == 4

PushTypes == {"t", "u"}

PushNames == {"a", "b", "c"}

\* The low and the high part of the partial field w
PushInfos == { [name |-> "w", lsb |-> 0, width |-> 2, reset |-> 1],
               [name |-> "w", lsb |-> 2, width |-> 2, reset |-> 2] }

PushInit ==
    /\ CurIdle
    /\ MuxIdle
    /\ ExprIdle
    /\ ParIdle
    /\ PgIdle
    /\ IpIdle
    /\ LdIdle
    /\ MnIdle
    /\ EnIdle
    /\ MpIdle
    /\ PsIdle
    /\ FkIdle
    /\ PtIdle
    /\ FiIdle
    /\ HwIdle
    /\ pdDict = <<>>
    /\ pdArgs = NoPush
    /\ pdRet = 0
    /\ pdN = 0

\* r.group_idx = rifs.partials.push(&r.group_type, &r.group_name, info)
Push ==
    /\ pdN < MaxPushes
    /\ \E group_type \in PushTypes, group_name \in PushNames, info \in PushInfos :
          \E r \in { PartialFieldDict_push(pdDict, group_type, group_name, info) } :
              /\ pdDict' = r.dict
              /\ pdRet' = r.idx
              /\ pdArgs' = [group_type |-> group_type, group_name |-> group_name, info |-> info]
    /\ pdN' = pdN + 1
    /\ UNCHANGED <<curVars, muxVars, exprVarsAll, parVars, pgVars, ipVars, ldVars, mnVars, enVars, mpVars, psVars, fkVars, ptVars, fiVars, hwVars>>

PushNext == Push

SpecPush == PushInit /\ [][PushNext]_vars

\* The buckets of the group type of the last push
PushedInfos == PartialFieldDict_get(pdDict, pdArgs.group_type).v

\* The index returned by the last push is the one of the bucket that has the
\* name pushed, whose list ends with the info pushed
ReturnsBucket ==
    /\ pdRet + 1 \in DOMAIN PushedInfos
    /\ PushedInfos[pdRet + 1].name = pdArgs.group_name
    /\ PushedInfos[pdRet + 1].list # <<>>
    /\ PushedInfos[pdRet + 1].list[Len(PushedInfos[pdRet + 1].list)] = pdArgs.info

\* C25: for any sequence of pushes, push(group_type, group_name, info)
\* returns the index, within the buckets of group_type, of the bucket named
\* group_name that received info.
C25_PushReturnsBucket == pdN > 0 => ReturnsBucket

\* The bucket named group_name is the last one of its group type
LastBucket == PushedInfos # <<>> /\ PushedInfos[Len(PushedInfos)].name = pdArgs.group_name

\* The index returned is the one of the bucket when the bucket is the last
\* one of its group type, as it is when the push created it
PushReturnsLast == (pdN > 0 /\ LastBucket) => ReturnsBucket

\* The info pushed is at the end of the list of the one bucket named
\* group_name, and the names of the buckets of a group type are distinct
PushStores ==
    pdN > 0 =>
        /\ \A i, j \in DOMAIN PushedInfos : PushedInfos[i].name = PushedInfos[j].name => i = j
        /\ \E i \in DOMAIN PushedInfos :
              /\ PushedInfos[i].name = pdArgs.group_name
              /\ PushedInfos[i].list[Len(PushedInfos[i].list)] = pdArgs.info

\* ---------------------------------------------------------------------
\* The port of a register group: RegPortKind, folded by RegImpl::new and
\* RegImpl::merge_with over the definitions of the group and their fields
\* ---------------------------------------------------------------------

\* Largest number of contributions (definitions and fields) to a group
MaxContribs == 6

RegPortKind == {"None", "In", "Out", "InOut"}

\* Mutant of updt: In stays In when Out is contributed
updt_mut(self, val) ==
    CASE self = "None" -> val
      [] self = "In"   -> IF val = "InOut" THEN "InOut" ELSE self
      [] self = "Out"  -> IF val \in {"In", "InOut"} THEN "InOut" ELSE self
      [] OTHER         -> self

\* RegPortKind::updt(&mut self, val): the new value of self
updt(self, val) ==
    CASE self = "None" -> val
      [] self = "In"   -> IF val \in {"Out", "InOut"} THEN "InOut" ELSE self
      [] self = "Out"  -> IF val \in {"In", "InOut"} THEN "InOut" ELSE self
      [] OTHER         -> self

\* field: [hw_acc, plain], plain: no hardware kind and no local lock
from_field(field) ==
    CASE field.hw_acc = "NA" -> "None"
      [] field.hw_acc = "WO" -> "In"
      [] field.hw_acc = "RW" -> "InOut"
      [] OTHER               -> IF field.plain THEN "Out" ELSE "InOut"

\* reg: [external, pulse], external: reg.external != ExternalKind::None,
\* pulse: reg.pulse is not empty
from_reg(reg) ==
    IF reg.external THEN "InOut" ELSE IF reg.pulse THEN "Out" ELSE "None"

PortFields == [hw_acc : {"NA", "WO", "RW", "RO"}, plain : BOOLEAN]

PortRegs == [external : BOOLEAN, pulse : BOOLEAN]

PortInit ==
    /\ CurIdle
    /\ MuxIdle
    /\ ExprIdle
    /\ ParIdle
    /\ PgIdle
    /\ IpIdle
    /\ LdIdle
    /\ MnIdle
    /\ EnIdle
    /\ MpIdle
    /\ PsIdle
    /\ FkIdle
    /\ PdIdle
    /\ FiIdle
    /\ HwIdle
    /\ ptPort = "None"
    /\ ptPrev = "None"
    /\ ptVal = "None"
    /\ ptSet = {}
    /\ ptN = 0

PortUpdt(val) ==
    /\ ptPrev' = ptPort
    /\ ptVal' = val
    /\ ptPort' = updt(ptPort, val)
    /\ ptSet' = ptSet \cup {val}
    /\ ptN' = ptN + 1

\* RegImpl::new: let mut port = RegPortKind::from_reg(reg)
PortNew ==
    /\ ptN = 0
    /\ \E reg \in PortRegs :
          /\ ptPort' = from_reg(reg)
          /\ ptVal' = from_reg(reg)
          /\ ptSet' = {from_reg(reg)}
    /\ ptPrev' = "None"
    /\ ptN' = 1
    /\ UNCHANGED <<curVars, muxVars, exprVarsAll, parVars, pgVars, ipVars, ldVars, mnVars, enVars, mpVars, psVars, fkVars, pdVars, fiVars, hwVars>>

\* The loop over reg.fields of RegImpl::new and of RegImpl::merge_with:
\* port.updt(RegPortKind::from_field(f))
PortField ==
    /\ ptN > 0
    /\ ptN < MaxContribs
    /\ \E f \in PortFields : PortUpdt(from_field(f))
    /\ UNCHANGED <<curVars, muxVars, exprVarsAll, parVars, pgVars, ipVars, ldVars, mnVars, enVars, mpVars, psVars, fkVars, pdVars, fiVars, hwVars>>

\* RegImpl::merge_with: self.port.updt(RegPortKind::from_reg(reg))
PortMerge ==
    /\ ptN > 0
    /\ ptN < MaxContribs
    /\ \E reg \in PortRegs : PortUpdt(from_reg(reg))
    /\ UNCHANGED <<curVars, muxVars, exprVarsAll, parVars, pgVars, ipVars, ldVars, mnVars, enVars, mpVars, psVars, fkVars, pdVars, fiVars, hwVars>>

PortNext == PortNew \/ PortField \/ PortMerge

SpecPort == PortInit /\ [][PortNext]_vars

\* The order of the lattice None < In | Out < InOut, and its join
PortLeq(a, b) == a = b \/ a = "None" \/ b = "InOut"

PortJoin(a, b) ==
    CHOOSE c \in RegPortKind :
        /\ PortLeq(a, c)
        /\ PortLeq(b, c)
        /\ \A d \in RegPortKind : (PortLeq(a, d) /\ PortLeq(b, d)) => PortLeq(c, d)

\* The least upper bound of a set of port kinds
PortJoinAll(set) ==
    CHOOSE c \in RegPortKind :
        /\ \A a \in set : PortLeq(a, c)
        /\ \A d \in RegPortKind : (\A a \in set : PortLeq(a, d)) => PortLeq(c, d)

\* C27: RegPortKind::updt is the join of the lattice None < In | Out < InOut:
\* None is the identity, In joined with Out is InOut, InOut absorbs
\* everything, the operation is commutative, associative and idempotent; so
\* the port of a group depends only on what its definitions and fields
\* contribute, not on their order.
C27_PortJoin ==
    ptN > 0 =>
        /\ ptPort = PortJoin(ptPrev, ptVal)
        /\ ptPort = PortJoinAll(ptSet)
        /\ updt("None", ptVal) = ptVal /\ updt(ptVal, "None") = ptVal
        /\ updt("InOut", ptVal) = "InOut" /\ updt(ptVal, "InOut") = "InOut"
        /\ updt(ptPrev, ptVal) = updt(ptVal, ptPrev)
        /\ updt(ptPort, ptPort) = ptPort
        /\ \A z \in ptSet : updt(updt(ptPrev, ptVal), z) = updt(ptPrev, updt(ptVal, z))
        /\ ({"In", "Out"} \subseteq ptSet) => ptPort = "InOut"

\* Witness of C27: Out is contributed to a group whose port is In, after a
\* contribution of None
C27_Witness ==
    /\ ptN >= 3
    /\ ptPrev = "In"
    /\ ptVal = "Out"
    /\ ptPort = "InOut"
    /\ "None" \in ptSet

\* ---------------------------------------------------------------------
\* The fields of a register instance: the loop over def.fields of
\* RifRegInst::new, with the next_lsb cursor of the Size-positioned fields
\* ---------------------------------------------------------------------

\* Largest number of fields of a register definition
MaxFieldDefs == 2

FieldNames == <<"f", "g", "h">>

\* The positions of a field: a size alone, or an lsb and a size
FieldShapes ==
    [kind : {"Size"}, lsb : {0}, width : {1, 2}, array : {0, 2}, array_pos_incr : {0}]
        \cup [kind : {"LsbSize"}, lsb : {0, 4}, width : {1, 2}, array : {0, 2},
              array_pos_incr : {0, 3}]

ShapedField(name, sh) ==
    [Field(name, sh.kind, sh.lsb, sh.width, Unsigned(0), 0 - 1)
        EXCEPT !.array = sh.array, !.array_pos_incr = sh.array_pos_incr]

\* r.array: a register that is not an array, the element 1 of an array of 2
\* register instances
RegArrays == { ArrayIdx(0, 0, TRUE), ArrayIdx(1, 2, FALSE) }

FieldsInit ==
    /\ CurIdle
    /\ MuxIdle
    /\ ExprIdle
    /\ ParIdle
    /\ PgIdle
    /\ IpIdle
    /\ LdIdle
    /\ MnIdle
    /\ EnIdle
    /\ MpIdle
    /\ PsIdle
    /\ FkIdle
    /\ PdIdle
    /\ PtIdle
    /\ HwIdle
    /\ \E n \in 1..MaxFieldDefs : \E sh \in [1..n -> FieldShapes], a \in RegArrays :
          fiDef = [fields |-> [i \in 1..n |-> ShapedField(FieldNames[i], sh[i])], array |-> a]
    /\ fiIdx = 0
    /\ fiNext = 0
    /\ fiInsts = <<>>

\* One iteration of for f in def.fields.iter(): the occurrences of the field
FieldExpand ==
    /\ fiIdx < Len(fiDef.fields)
    /\ \E r \in { FieldElements(fiDef.fields[fiIdx + 1], fiNext, fiDef.array, 0, fiInsts) } :
          /\ fiInsts' = r.insts
          /\ fiNext' = r.next_lsb
    /\ fiIdx' = fiIdx + 1
    /\ UNCHANGED fiDef
    /\ UNCHANGED <<curVars, muxVars, exprVarsAll, parVars, pgVars, ipVars, ldVars, mnVars, enVars, mpVars, psVars, fkVars, pdVars, ptVars, hwVars>>

FieldsNext == FieldExpand

SpecFields == FieldsInit /\ [][FieldsNext]_vars

\* The field of def.fields an occurrence comes from
FieldDefOf(inst) ==
    fiDef.fields[CHOOSE i \in DOMAIN fiDef.fields : fiDef.fields[i].name = inst.name]

\* The occurrence k of r.fields starts right after the occurrence before it,
\* the first one at bit 0
StartsAfterPrevious(k) ==
    fiInsts[k].lsb = IF k = 1 THEN 0 ELSE fiInsts[k - 1].lsb + fiInsts[k - 1].width

\* C29: the occurrences of the fields declared with a size alone, the
\* elements of a field array included, are packed: each starts at the bit
\* right after the occurrence before it, the first one at bit 0.
C29_SizeFieldsPacked ==
    \A k \in DOMAIN fiInsts :
        FieldDefOf(fiInsts[k]).pos.kind = "Size" => StartsAfterPrevious(k)

\* The occurrences of a register whose fields are all declared with a size
\* alone and are not arrays are packed
PlainSizeFieldsPacked ==
    (\A i \in DOMAIN fiDef.fields :
        fiDef.fields[i].pos.kind = "Size" /\ fiDef.fields[i].array = 0)
        => \A k \in DOMAIN fiInsts : StartsAfterPrevious(k)

\* next_lsb is the sum of the widths of the occurrences made so far
NextLsbIsSum ==
    fiNext = SumSeq([k \in DOMAIN fiInsts |-> fiInsts[k].width])

\* ------------------------------------------------------------------
\* RifInst::new: the pages of a RIF, then RegImplDict::build, then
\* HwRegs::build
\* ------------------------------------------------------------------

MaxRifPages == 2

\* A page of the RIF
RifPage(name, inst_auto, registers, instances) ==
    [name |-> name, inst_auto |-> inst_auto, external |-> FALSE, registers |-> registers,
     instances |-> instances]

\* The pages a RIF is made of: auto pages (plain registers with an optional
\* one and an include; an interrupt register and the slices of a partial
\* field; a register followed by the include of lib2) and manual pages
\* (instances of three definitions; an instance of a definition whose
\* optional parameter is 0), and a page without register
HwPageDefs ==
    << RifPage("ext", TRUE, <<>>, <<>>),
       RifPage("top", TRUE, << Def(RegCtl), Def(RegOpt), Include("lib") >>, <<>>),
       RifPage("irq", TRUE, << Def(RegIrqA), Def(RegLo), Def(RegHi) >>, <<>>),
       RifPage("inc", TRUE, << Def(RegCh), Include("lib2") >>, <<>>),
       RifPage("man", FALSE, << Def(RegCtl), Def(RegCh), Def(RegIrqA) >>,
               << ManInst("c0", "ctl", "", <<>>, <<>>), ManInst("chs", "ch", "", Two, <<>>),
                  ManInst("ie", "irqa_en", "", <<>>, <<>>) >>),
       RifPage("mopt", FALSE, << Def(RegCh), Def(RegOpt) >>,
               << ManInst("o0", "opt", "", <<>>, <<>>),
                  ManInst("ch0", "ch", "", <<>>, <<>>) >>) >>

HwInit ==
    /\ CurIdle
    /\ MuxIdle
    /\ ExprIdle
    /\ ParIdle
    /\ PgIdle
    /\ IpIdle
    /\ LdIdle
    /\ MnIdle
    /\ EnIdle
    /\ MpIdle
    /\ PsIdle
    /\ FkIdle
    /\ PdIdle
    /\ PtIdle
    /\ FiIdle
    /\ \E n \in 1..MaxRifPages :
          \E f \in [1..n -> DOMAIN HwPageDefs], x \in [1..n -> BOOLEAN] :
             /\ \A i, j \in 1..n : i # j => f[i] # f[j]
             /\ hwIn = [data_width |-> 32,
                        pages |-> [i \in 1..n |-> [HwPageDefs[f[i]] EXCEPT !.external = x[i]]],
                        params |-> PageParams]
    /\ hwIdx = 0
    /\ hwSt = [regs |-> <<>>, partials |-> <<>>, ok |-> TRUE]
    /\ hwImpl = [ok |-> TRUE, v |-> <<>>, err |-> ""]
    /\ hwRegs = <<>>
    /\ hwPc = "pages"

\* RifPageInst::new(&mut rifs_info, page, incr): the registers of the
\* page and rifs.partials after the call
RifPageInst_new(partials, page, incr, params) ==
    IF page.inst_auto
    THEN reg_auto_inst(PageSt(<<>>, <<>>, partials, 0, TRUE), RifPages, page, 1, incr,
                       params)
    ELSE ManualFold([ManualEmpty EXCEPT !.partials = partials], InstAddr_new(incr),
                    page, page.instances, 1, params).p

\* One iteration of for page in rif.pages.iter() of RifInst::new (the
\* included RIFs exist and are not wider than the RIF)
HwPage ==
    /\ hwPc = "pages"
    /\ hwIdx < Len(hwIn.pages)
    /\ \E r \in { RifPageInst_new(hwSt.partials, hwIn.pages[hwIdx + 1],
                                  hwIn.data_width \div 8, hwIn.params) } :
          /\ hwSt' = [regs |-> hwSt.regs \o r.regs, partials |-> r.partials, ok |-> r.ok]
          /\ hwPc' = IF r.ok THEN "pages" ELSE "err"
    /\ hwIdx' = hwIdx + 1
    /\ UNCHANGED <<hwIn, hwImpl, hwRegs>>
    /\ UNCHANGED <<curVars, muxVars, exprVarsAll, parVars, pgVars, ipVars, ldVars, mnVars, enVars, mpVars, psVars, fkVars, pdVars, ptVars, fiVars>>

\* RegImplDict::build(src, rifs) from the page i of src.pages on
RECURSIVE RegImplDict_build(_, _, _, _, _)
RegImplDict_build(regs, pages, i, params, partials) ==
    IF i > Len(pages) THEN regs
    ELSE RegImplDict_build(IF pages[i].external THEN regs
                           ELSE add_defs(regs, RifPages, pages[i], 1, params, partials, ""),
                           pages, i + 1, params, partials)

\* let reg_impl_defs = RegImplDict::build(rif, &rifs_info)?
HwImplBuild ==
    /\ hwPc = "pages"
    /\ hwIdx = Len(hwIn.pages)
    /\ \E d \in { RegImplDict_build([ok |-> TRUE, v |-> <<>>, err |-> ""], hwIn.pages, 1,
                                    hwIn.params, hwSt.partials) } :
          /\ hwImpl' = d
          /\ hwPc' = IF \E i \in DOMAIN d.v :
                          \E j \in DOMAIN d.v[i].fields : d.v[i].fields[j].st = "panic"
                     THEN "panic"
                     ELSE IF d.ok THEN "dict" ELSE "err"
    /\ UNCHANGED <<hwIn, hwIdx, hwSt, hwRegs>>
    /\ UNCHANGED <<curVars, muxVars, exprVarsAll, parVars, pgVars, ipVars, ldVars, mnVars, enVars, mpVars, psVars, fkVars, pdVars, ptVars, fiVars>>

\* InterruptRegKind::get_suffix
get_suffix(kind) ==
    IF kind = "Enable" THEN "_en"
    ELSE IF kind = "Mask" THEN "_mask"
    ELSE IF kind = "Pending" THEN "_pending"
    ELSE ""

\* InterruptRegKind::is_derived
is_derived(kind) == kind \in {"Enable", "Mask", "Pending"}

\* defs.get(&reg.group_type)
RegImplDict_get(defs, group_type) ==
    IF \E i \in DOMAIN defs.v : defs.v[i].name = group_type
    THEN [some |-> TRUE,
          v |-> defs.v[CHOOSE i \in DOMAIN defs.v : defs.v[i].name = group_type]]
    ELSE [some |-> FALSE, v |-> RegImpl_new(RegCtl, <<>>)]

\* RegImpl::build(rif, group_name, rifs) is Ok: a definition of the RIF pkg
\* has the group (the included RIFs have one page without include, and
\* define a group once)
RegImpl_build_ok(pkg, group_name) ==
    \E i \in DOMAIN RifPages :
        /\ RifPages[i].name = pkg
        /\ \E j \in DOMAIN RifPages[i].registers :
              /\ ~RifPages[i].registers[j].incl
              /\ RifPages[i].registers[j].def.group = group_name

\* The body of for reg in &page.regs of HwRegs::build on hw_regs: the key
\* is the pair of reg.group_name and the suffix, an entry keeps the group,
\* and whether the register is derived; st is "ok", "undefined" for Err(..
\* should be defined in the hardware registers) and "panic" for the unwrap
\* of RegImpl::build
HwRegs_insert(hw_regs, reg, key, reg_impl) ==
    IF \E j \in DOMAIN hw_regs : hw_regs[j].key = key THEN [st |-> "ok", v |-> hw_regs]
    ELSE IF ~reg_impl.some THEN [st |-> "undefined", v |-> hw_regs]
    ELSE IF reg_impl.v.pkg # "" /\ ~RegImpl_build_ok(reg_impl.v.pkg, reg.group_type)
    THEN [st |-> "panic", v |-> hw_regs]
    ELSE [st |-> "ok",
          v |-> Append(hw_regs, [key |-> key, group |-> reg.group_type,
                                 intr_derived |-> is_derived(reg.kind)])]

\* HwRegs::build(pages, defs, rifs) from the register i on
RECURSIVE HwRegs_build(_, _, _, _)
HwRegs_build(regs, defs, i, acc) ==
    IF i > Len(regs) \/ acc.st # "ok" THEN acc
    ELSE HwRegs_build(regs, defs, i + 1,
                      HwRegs_insert(acc.v, regs[i],
                                    <<regs[i].group_name, get_suffix(regs[i].kind)>>,
                                    RegImplDict_get(defs, regs[i].group_type)))

\* let hw_regs = HwRegs::build(&pages, &reg_impl_defs, &rifs_info)?
HwBuild ==
    /\ hwPc = "dict"
    /\ \E h \in { HwRegs_build(hwSt.regs, hwImpl, 1, [st |-> "ok", v |-> <<>>]) } :
          /\ hwRegs' = h.v
          /\ hwPc' = IF h.st = "ok" THEN "done" ELSE h.st
    /\ UNCHANGED <<hwIn, hwIdx, hwSt, hwImpl>>
    /\ UNCHANGED <<curVars, muxVars, exprVarsAll, parVars, pgVars, ipVars, ldVars, mnVars, enVars, mpVars, psVars, fkVars, pdVars, ptVars, fiVars>>

HwNext == HwPage \/ HwImplBuild \/ HwBuild

SpecHw == HwInit /\ [][HwNext]_vars

\* The register k of the pages has a RegImpl for its group type
HasRegImpl(k) ==
    \E i \in DOMAIN hwImpl.v : hwImpl.v[i].name = hwSt.regs[k].group_type

\* C30: once the pages of a RIF are built and its RegImplDict is made, every
\* register instance of every page has a RegImpl for its group type, and
\* HwRegs::build does not fail with "should be defined"
C30_RegImplForEveryInstance ==
    hwPc \in {"dict", "done", "undefined"} =>
        /\ \A k \in DOMAIN hwSt.regs : HasRegImpl(k)
        /\ hwPc # "undefined"

\* The definition the manual instance reg is made from is ignored
InstOfIgnored(page, reg) ==
    LET fd == find_regdef(page.registers, reg.type_name)
    IN  fd.some /\ ignored(fd.def, hwIn.params)

\* A page whose registers the RegImplDict leaves out: an external page, or
\* a manual page with an instance of an ignored definition
LeftOut(page) ==
    \/ page.external
    \/ /\ ~page.inst_auto
       /\ \E i \in DOMAIN page.instances : InstOfIgnored(page, page.instances[i])

\* The builders agree on the RIFs without such a page
AgreeWithoutLeftOut ==
    (hwPc \in {"dict", "done", "undefined"}
        /\ \A i \in DOMAIN hwIn.pages : ~LeftOut(hwIn.pages[i])) =>
        /\ \A k \in DOMAIN hwSt.regs : HasRegImpl(k)
        /\ hwPc # "undefined"

\* HwRegs::build fails with "should be defined" only on a register that has
\* no RegImpl
UndefinedIsMissing ==
    hwPc = "undefined" => \E k \in DOMAIN hwSt.regs : ~HasRegImpl(k)

====
